---- MODULE Spec2Model ----
(***************************************************************************)
(* Analytics engine of the options dashboard (src/options.py):             *)
(* AdvancedOptionsAnalyzer.analyze_options_overview, calculate_max_pain    *)
(* and calculate_exposure_profiles, applied to a calls table and a puts    *)
(* table, together with the yfinance normalizer get_options_data_yf (and   *)
(* its older draft in options_scraper/yfinance_options_scraper.py), the    *)
(* NASDAQ fetch, plot_exposure_profile and the run of the dashboard script *)
(* that follows the Analyze button.                                        *)
(*                                                                         *)
(* A table (pandas DataFrame) is a record [columns, rows]: the set of its  *)
(* column names and the sequence of its rows in positional order, each row *)
(* a function from the column names to numbers.  Prices and greeks are     *)
(* integers in an arbitrary fixed unit.  NaN is the null cell.             *)
(***************************************************************************)
EXTENDS Integers, Sequences, FiniteSets, TLC

VARIABLES calls_df, puts_df, overview, max_pain, exposure,
          pc, data_source, option_chain, spot_price, gamma_flip_metric, exposure_fig,
          api_error, messages, exp_dates, analyze_button, failed,
          cache_dir, callers, first_fetch, sched, data_store, job, reply,
          json_data, records

vars == <<calls_df, puts_df, overview, max_pain, exposure,
          pc, data_source, option_chain, spot_price, gamma_flip_metric, exposure_fig,
          api_error, messages, exp_dates, analyze_button, failed,
          cache_dir, callers, first_fetch, sched, data_store, job, reply,
          json_data, records>>

\* the scraper's cache directory and the calls under way, the scheduler's
\* retry loop, the server's CSV store, scrape job and reply, and the
\* document and records of parse_json_records
backend == <<cache_dir, callers, first_fetch, sched, data_store, job, reply,
             json_data, records>>

\* st.session_state.api_error, the messages shown by st.error and st.warning,
\* the expiration dates fetched, the Analyze button of the run, and the
\* fetches of the run that ended in their except branch
session == <<api_error, messages, exp_dates, analyze_button, failed>>

\* the state of a run of the dashboard script: its position, the selected data
\* source, what the source answered, analyzer.spot_price and what is displayed
page == <<pc, data_source, option_chain, spot_price, gamma_flip_metric, exposure_fig>>

\* Python's None
None == [none |-> TRUE]

\* no scraper, scheduler or server is running
NoBackend ==
    /\ cache_dir = <<>>
    /\ callers = <<>>
    /\ first_fetch = <<>>
    /\ sched = None
    /\ data_store = <<>>
    /\ job = None
    /\ reply = None
    /\ json_data = None
    /\ records = None

\* nothing is in the session state or on the page
NoSession ==
    /\ api_error = None
    /\ messages = {}
    /\ exp_dates = None
    /\ analyze_button = FALSE
    /\ failed = {}

\* no run of the script is under way: only the analyzer object exists
NoRun ==
    /\ pc = "idle"
    /\ data_source = "NASDAQ API"
    /\ option_chain = None
    /\ spot_price = 1
    /\ gamma_flip_metric = None
    /\ exposure_fig = None
    /\ NoSession
    /\ NoBackend

(***************************************************************************)
(* Bounds of the enumerated inputs.                                        *)
(***************************************************************************)
MaxOI == 2
MaxVol == 2
MaxRows == 3
MaxTopRows == 6
MaxGreekRows == 2

\* the null cell (numpy NaN); outside every value domain of the model
NaN == 0 - 1000000

Strikes == {1, 2, 3}

OpenInterests == {0, 1, 2}

BaseCols == {"strike", "openInterest", "volume", "impliedVolatility"}

(***************************************************************************)
(* Generic helpers standing for the pandas / numpy primitives used.        *)
(***************************************************************************)
Min2(a, b) == IF a <= b THEN a ELSE b

SeqsUpTo(S, n) == UNION {[1..k -> S] : k \in 0..n}

\* Series.sum(): NaN cells are skipped
RECURSIVE SumSkipNa(_)
SumSkipNa(s) ==
    IF s = <<>> THEN 0
    ELSE (IF Head(s) = NaN THEN 0 ELSE Head(s)) + SumSkipNa(Tail(s))

\* df[col] as a sequence of cells
Col(df, col) == [i \in 1..Len(df.rows) |-> df.rows[i][col]]

\* df[col].tolist() as a set
StrikeSet(df) == {df.rows[i]["strike"] : i \in 1..Len(df.rows)}

\* sorted(list(set(...))): ascending sequence of the members of S
RECURSIVE SortedList(_)
SortedList(S) ==
    IF S = {} THEN <<>>
    ELSE LET m == CHOOSE x \in S : \A y \in S : x <= y
         IN  <<m>> \o SortedList(S \ {m})

\* the rows of the group of strike s, in positional order
GroupRows(df, s) == SelectSeq(df.rows, LAMBDA r : r["strike"] = s)

\* df.groupby('strike')[col].sum() at the key s
GroupSum(df, col, s) ==
    SumSkipNa([i \in 1..Len(GroupRows(df, s)) |-> GroupRows(df, s)[i][col]])

\* elementwise product of two cells: NaN propagates
Mul(a, b) == IF a = NaN \/ b = NaN THEN NaN ELSE a * b

\* df[col] = vals: the column is added, or overwritten, in place
AddCol(df, col, vals) ==
    [columns |-> df.columns \cup {col},
     rows    |-> [i \in 1..Len(df.rows) |->
                    [c \in df.columns \cup {col} |->
                        IF c = col THEN vals[i] ELSE df.rows[i][c]]]]

\* Series.fillna(0)
FillNa0(x) == IF x = NaN THEN 0 ELSE x

\* Series.idxmax() / np.argmax: position of the first occurrence of the
\* maximum of a non-empty sequence
RECURSIVE ArgMaxFrom(_, _, _)
ArgMaxFrom(vals, i, best) ==
    IF i > Len(vals) THEN best
    ELSE ArgMaxFrom(vals, i + 1, IF vals[i] > vals[best] THEN i ELSE best)

ArgMax(vals) == ArgMaxFrom(vals, 2, 1)

\* np.argmin: position of the first occurrence of the minimum
RECURSIVE ArgMinFrom(_, _, _)
ArgMinFrom(vals, i, best) ==
    IF i > Len(vals) THEN best
    ELSE ArgMinFrom(vals, i + 1, IF vals[i] < vals[best] THEN i ELSE best)

ArgMin(vals) == ArgMinFrom(vals, 2, 1)

(***************************************************************************)
(* analyze_options_overview                                                *)
(***************************************************************************)
TopN == 5

\* total_put / total_call if total_call > 0 else 0, kept as an exact fraction
PcrFallback(p, q) == [num |-> p, den |-> IF q > 0 THEN q ELSE 1]

Pcr(p, q) == IF q > 0 THEN [num |-> p, den |-> q] ELSE [num |-> 0, den |-> 1]

\* f"{x:.2f}" of a non-negative fraction, as a count of hundredths: the
\* nearest hundredth, an exact tie going to the even one (the ties of the
\* enumerated totals are eighths, which a binary float holds exactly)
Fmt2(x) ==
    LET n == 100 * x.num
        q == n \div x.den
        r == n % x.den
    IN  IF 2 * r < x.den THEN q
        ELSE IF 2 * r > x.den THEN q + 1
        ELSE IF q % 2 = 0 THEN q ELSE q + 1

\* sorted(list(set(calls_df['strike'].tolist() + puts_df['strike'].tolist())))
AllStrikesNoUnion(c, p) == SortedList(StrikeSet(c))

AllStrikes(c, p) == SortedList(StrikeSet(c) \cup StrikeSet(p))

\* profile_df[name] after the left joins on all_strikes and fillna(0)
ProfileOI(df, strikes) ==
    [k \in 1..Len(strikes) |->
        FillNa0(IF strikes[k] \in StrikeSet(df)
                THEN GroupSum(df, "openInterest", strikes[k]) ELSE NaN)]

\* Series.idxmax() on a profile column: label of the first maximum
IdxMaxLast(strikes, vals) ==
    strikes[CHOOSE i \in 1..Len(vals) :
               \A j \in 1..Len(vals) : vals[j] < vals[i] \/ (vals[j] = vals[i] /\ j <= i)]

IdxMax(strikes, vals) == strikes[ArgMax(vals)]

\* df['openInterest'] * df['volume'], the column oi_vol_product
OiVolProduct(df) ==
    [i \in 1..Len(df.rows) |-> Mul(df.rows[i]["openInterest"], df.rows[i]["volume"])]

\* Series.nlargest(n, keep='first') over non-null values: positions of the n
\* largest values, largest first, equal values in positional order
RECURSIVE NLargestPos(_, _, _)
NLargestPos(vals, n, taken) ==
    LET rest == {i \in 1..Len(vals) : i \notin taken}
    IN  IF n = 0 \/ rest = {} THEN <<>>
        ELSE LET b == CHOOSE i \in rest : \A j \in rest :
                          vals[j] < vals[i] \/ (vals[j] = vals[i] /\ i <= j)
             IN  <<b>> \o NLargestPos(vals, n - 1, taken \cup {b})

\* df.nlargest(5, 'oi_vol_product')[['strike', 'openInterest', 'volume',
\* 'impliedVolatility']]: the selected rows with their index labels
\* (RangeIndex, 0-based) and the four columns
NLargestHead(df, n) ==
    LET k == Min2(n, Len(df.rows))
    IN  [j \in 1..k |-> [index |-> j - 1] @@ [c \in BaseCols |-> df.rows[j][c]]]

NLargestAllCols(df, n) ==
    LET pos == NLargestPos(Col(df, "oi_vol_product"), n, {})
    IN  [k \in 1..Len(pos) |-> [index |-> pos[k] - 1] @@ df.rows[pos[k]]]

NLargest(df, n) ==
    LET pos == NLargestPos(Col(df, "oi_vol_product"), n, {})
    IN  [k \in 1..Len(pos) |->
            [index |-> pos[k] - 1] @@ [c \in BaseCols |-> df.rows[pos[k]][c]]]

NotCalled == [status |-> "none"]

Raised(e) == [status |-> "raised", error |-> e]

\* the returned dict; pcr_oi and pcr_vol are the values of the locals of
\* lines 89-90, of which the dict holds the 2-decimal renderings
OverviewResult(c, p) ==
    LET total_call_oi  == SumSkipNa(Col(c, "openInterest"))
        total_put_oi   == SumSkipNa(Col(p, "openInterest"))
        total_call_vol == SumSkipNa(Col(c, "volume"))
        total_put_vol  == SumSkipNa(Col(p, "volume"))
        all_strikes    == AllStrikes(c, p)
        c2 == AddCol(c, "oi_vol_product", OiVolProduct(c))
        p2 == AddCol(p, "oi_vol_product", OiVolProduct(p))
    IN  [status         |-> "ok",
         total_call_oi  |-> total_call_oi,
         total_put_oi   |-> total_put_oi,
         total_call_vol |-> total_call_vol,
         total_put_vol  |-> total_put_vol,
         pcr_oi         |-> Pcr(total_put_oi, total_call_oi),
         pcr_vol        |-> Pcr(total_put_vol, total_call_vol),
         put_call_ratio_oi  |-> Fmt2(Pcr(total_put_oi, total_call_oi)),
         put_call_ratio_vol |-> Fmt2(Pcr(total_put_vol, total_call_vol)),
         top_calls      |-> NLargest(c2, TopN),
         top_puts       |-> NLargest(p2, TopN),
         call_wall      |-> IdxMax(all_strikes, ProfileOI(c, all_strikes)),
         put_wall       |-> IdxMax(all_strikes, ProfileOI(p, all_strikes))]

AnalyzeOptionsOverview ==
    /\ IF ~(BaseCols \subseteq calls_df.columns /\ BaseCols \subseteq puts_df.columns)
       THEN \* a column lookup fails before anything is written
            /\ overview' = Raised("KeyError")
            /\ UNCHANGED <<calls_df, puts_df>>
       ELSE IF AllStrikes(calls_df, puts_df) = <<>>
       THEN \* idxmax of an empty column (line 98), before the tables are written
            /\ overview' = Raised("ValueError")
            /\ UNCHANGED <<calls_df, puts_df>>
       ELSE /\ overview' = OverviewResult(calls_df, puts_df)
            /\ calls_df' = AddCol(calls_df, "oi_vol_product", OiVolProduct(calls_df))
            /\ puts_df' = AddCol(puts_df, "oi_vol_product", OiVolProduct(puts_df))
    /\ UNCHANGED <<max_pain, exposure>>

(***************************************************************************)
(* calculate_max_pain                                                      *)
(***************************************************************************)
\* ((test_price - strike) * openInterest).sum() over the calls below test_price
RECURSIVE CallLoss(_, _)
CallLoss(rows, test_price) ==
    IF rows = <<>> THEN 0
    ELSE (IF Head(rows)["strike"] < test_price
          THEN FillNa0(Mul(test_price - Head(rows)["strike"], Head(rows)["openInterest"]))
          ELSE 0) + CallLoss(Tail(rows), test_price)

\* ((strike - test_price) * openInterest).sum() over the puts above test_price
RECURSIVE PutLoss(_, _)
PutLoss(rows, test_price) ==
    IF rows = <<>> THEN 0
    ELSE (IF Head(rows)["strike"] > test_price
          THEN FillNa0(Mul(Head(rows)["strike"] - test_price, Head(rows)["openInterest"]))
          ELSE 0) + PutLoss(Tail(rows), test_price)

TotalLosses(c, p, strikes) ==
    [k \in 1..Len(strikes) |-> CallLoss(c.rows, strikes[k]) + PutLoss(p.rows, strikes[k])]

\* np.argmin(total_losses), 0-based
MinLossIndexLast(total_losses) ==
    (CHOOSE i \in 1..Len(total_losses) : \A j \in 1..Len(total_losses) :
         total_losses[i] < total_losses[j] \/ (total_losses[i] = total_losses[j] /\ j <= i)) - 1

MinLossIndexMax(total_losses) == ArgMax(total_losses) - 1

MinLossIndex(total_losses) == ArgMin(total_losses) - 1

\* strikes[min_loss_index] if strikes else 0
MaxPainValueIsIndex(strikes, min_loss_index) ==
    IF strikes # <<>> THEN min_loss_index ELSE 0

MaxPainValue(strikes, min_loss_index) ==
    IF strikes # <<>> THEN strikes[min_loss_index + 1] ELSE 0

CalculateMaxPain ==
    /\ LET strikes == AllStrikes(calls_df, puts_df)
           total_losses == TotalLosses(calls_df, puts_df, strikes)
       IN  IF ~({"strike", "openInterest"} \subseteq calls_df.columns \cap puts_df.columns)
           THEN max_pain' = Raised("KeyError")
           ELSE IF total_losses = <<>>
           THEN \* np.argmin of an empty sequence (line 122) raises before line 123
                max_pain' = Raised("ValueError")
           ELSE max_pain' = [status |-> "ok",
                             value  |-> MaxPainValue(strikes, MinLossIndex(total_losses))]
    /\ UNCHANGED <<calls_df, puts_df, overview, exposure>>

(***************************************************************************)
(* calculate_exposure_profiles                                             *)
(***************************************************************************)
ContractMultiplier == 100

RequiredCols == {"gamma", "delta", "openInterest", "strike"}

\* df[col].isnull().all(): true of a column without rows
AllNull(df, col) == \A i \in 1..Len(df.rows) : df.rows[i][col] = NaN

\* all(col in df.columns and not df[col].isnull().all() for col in required_cols)
UsableNonEmpty(df) ==
    \A col \in RequiredCols : col \in df.columns /\ df.rows # <<>>

Usable(df) ==
    \A col \in RequiredCols : col \in df.columns /\ ~AllNull(df, col)

\* the condition of the early return (lines 127-128)
GreeksUnavailable(c, p) == ~Usable(c) \/ ~Usable(p)

\* return pd.DataFrame(), 0, 0
UnavailableResult ==
    [status |-> "ok", profile |-> <<>>, gamma_flip |-> 0, hvl |-> 0]

\* df[greek] * df['openInterest'] * 100 * sign, as a column
Exposure(df, greek, sign) ==
    [i \in 1..Len(df.rows) |->
        Mul(Mul(Mul(df.rows[i][greek], df.rows[i]["openInterest"]), ContractMultiplier), sign)]

CallGex(df) == Exposure(df, "gamma", 1)

CallDex(df) == Exposure(df, "delta", 1)

\* df['gamma'] * df['openInterest'] * 100 * -1
PutGexUnsigned(df) == Exposure(df, "gamma", 1)

PutGex(df) == Exposure(df, "gamma", 0 - 1)

PutDex(df) == Exposure(df, "delta", 1)

\* index of pd.concat([call_exposure, put_exposure], axis=1): the groupby keys
\* of the calls in ascending order, then those of the puts that the calls
\* lack, in ascending order (the outer join does not sort)
ProfileIndex(c, p) ==
    SortedList(StrikeSet(c)) \o SortedList(StrikeSet(p) \ StrikeSet(c))

\* a cell of the concatenated frame after fillna(0)
ExposureCell(df, col, s) ==
    FillNa0(IF s \in StrikeSet(df) THEN GroupSum(df, col, s) ELSE NaN)

\* c and p carry the gex and dex columns
Profile(c, p) ==
    LET idx == ProfileIndex(c, p)
    IN  [k \in 1..Len(idx) |->
            [strike   |-> idx[k],
             call_gex |-> ExposureCell(c, "gex", idx[k]),
             call_dex |-> ExposureCell(c, "dex", idx[k]),
             put_gex  |-> ExposureCell(p, "gex", idx[k]),
             put_dex  |-> ExposureCell(p, "dex", idx[k]),
             net_gex  |-> ExposureCell(c, "gex", idx[k]) + ExposureCell(p, "gex", idx[k]),
             net_dex  |-> ExposureCell(c, "dex", idx[k]) + ExposureCell(p, "dex", idx[k])]]

\* Series.cumsum()
RECURSIVE CumSum(_)
CumSum(vals) ==
    IF vals = <<>> THEN <<>>
    ELSE LET init == CumSum(SubSeq(vals, 1, Len(vals) - 1))
         IN  Append(init, (IF init = <<>> THEN 0 ELSE init[Len(init)]) + vals[Len(vals)])

\* net_gex_cumsum = profile['net_gex'].cumsum()
NetGexCumsum(profile) == CumSum([k \in 1..Len(profile) |-> profile[k].net_gex])

\* net_gex_cumsum[net_gex_cumsum > 0].index[0], 0 on IndexError
GammaFlipPoint(profile) ==
    LET cum == NetGexCumsum(profile)
        pos == {k \in 1..Len(profile) : cum[k] > 0}
    IN  IF pos = {} THEN 0
        ELSE profile[CHOOSE k \in pos : \A m \in pos : k <= m].strike

Abs(x) == IF x < 0 THEN 0 - x ELSE x

\* profile['net_gex'].abs().idxmax()
HvlStrikeSigned(profile) ==
    profile[ArgMax([k \in 1..Len(profile) |-> profile[k].net_gex])].strike

HvlStrike(profile) ==
    profile[ArgMax([k \in 1..Len(profile) |-> Abs(profile[k].net_gex)])].strike

ExposureResult(c, p) ==
    LET profile == Profile(c, p)
    IN  [status     |-> "ok",
         profile    |-> profile,
         gamma_flip |-> GammaFlipPoint(profile),
         hvl        |-> HvlStrike(profile)]

CalculateExposureProfiles ==
    /\ IF GreeksUnavailable(calls_df, puts_df)
       THEN \* st.warning(...), and the empty result is returned as a value
            /\ exposure' = UnavailableResult
            /\ UNCHANGED <<calls_df, puts_df>>
       ELSE LET c2 == AddCol(AddCol(calls_df, "gex", CallGex(calls_df)), "dex", CallDex(calls_df))
                p2 == AddCol(AddCol(puts_df, "gex", PutGex(puts_df)), "dex", PutDex(puts_df))
            IN  /\ exposure' = ExposureResult(c2, p2)
                /\ calls_df' = c2
                /\ puts_df' = p2
    /\ UNCHANGED <<overview, max_pain>>

(***************************************************************************)
(* Input chains.  Every table carries the four columns the data sources    *)
(* deliver (strike, openInterest, volume, impliedVolatility), all numeric. *)
(***************************************************************************)
Row(s, oi, v) ==
    [strike |-> s, openInterest |-> oi, volume |-> v, impliedVolatility |-> 0]

Table(rows) == [columns |-> BaseCols, rows |-> rows]

\* short chains of at most MaxRows rows in all, any strikes and open interest,
\* in any row order, the two sides independent (asymmetric chains, repeated
\* strikes, an empty side, the empty chain)
OIRows == {Row(s, oi, 1) : s \in Strikes, oi \in OpenInterests}

ChainsOI ==
    UNION {UNION {[1..k -> OIRows] \X [1..j -> OIRows] : j \in 0..(MaxRows - k)}
           : k \in 0..MaxRows}

\* one row per side, open interest and volume varying independently
VolRows == {Row(1, oi, v) : oi \in 0..MaxOI, v \in 0..MaxVol}

ChainsVol == {<<(<<a>>), (<<b>>)>> : a \in VolRows, b \in VolRows}

\* one long side of up to MaxTopRows rows (more than the top-5 list holds)
TopRows == {Row(1, 1, 1), Row(2, 1, 1), Row(1, 2, 1)}

ChainsTop ==
    {<<c, (<<Row(1, 1, 1)>>)>> : c \in SeqsUpTo(TopRows, MaxTopRows)} \cup
    {<<(<<Row(1, 1, 1)>>), q>> : q \in SeqsUpTo(TopRows, MaxTopRows)}

\* the two concrete chains of the specification's scenarios
ScenarioPcr == <<(<<Row(100, 50, 10)>>), (<<Row(100, 30, 5)>>)>>

ScenarioMaxPain ==
    << <<Row(90, 100, 0), Row(110, 10, 0)>>, <<Row(90, 5, 0), Row(110, 100, 0)>> >>

OverviewChains == ChainsOI \cup ChainsVol \cup ChainsTop \cup {ScenarioPcr, ScenarioMaxPain}

InitChain(chains) ==
    /\ \E ch \in chains :
          /\ calls_df = Table(ch[1])
          /\ puts_df = Table(ch[2])
    /\ overview = NotCalled
    /\ max_pain = NotCalled
    /\ exposure = NotCalled
    /\ NoRun

InitOverview == InitChain(OverviewChains)

NextOverview == AnalyzeOptionsOverview /\ UNCHANGED <<page, session, backend>>

SpecOverview == InitOverview /\ [][NextOverview]_vars

InitMaxPain == InitChain(OverviewChains)

NextMaxPain == CalculateMaxPain /\ UNCHANGED <<page, session, backend>>

SpecMaxPain == InitMaxPain /\ [][NextMaxPain]_vars

(***************************************************************************)
(* Chains for the exposure profile.  A table has the gamma and the delta   *)
(* column or lacks them (a source without greeks), and a greek cell may be *)
(* null.  Put deltas are negative.                                         *)
(***************************************************************************)
GreekCols == {"gamma", "delta"}

GammaVals == {NaN, 0, 1}

DeltaVals(sign) == {NaN, 0, sign}

\* the rows of a table with the greek columns G: strike s, open interest 1
GreekRows(G, s, sign) ==
    {[c \in BaseCols \cup G |->
         CASE c = "strike" -> s
           [] c = "openInterest" -> 1
           [] c = "volume" -> 1
           [] c = "impliedVolatility" -> 0
           [] c = "gamma" -> g
           [] c = "delta" -> d] : g \in GammaVals, d \in DeltaVals(sign)}

GreekTables(s, sign, n) ==
    UNION {{[columns |-> BaseCols \cup G, rows |-> rows] :
               rows \in SeqsUpTo(GreekRows(G, s, sign), n)} : G \in SUBSET GreekCols}

\* the other side: one row at strike 2, its greeks absent, null, zero or set
OneRowGreekTables(sign) ==
    UNION {{[columns |-> BaseCols \cup G,
             rows |-> <<[c \in BaseCols \cup G |->
                           CASE c = "strike" -> 2
                             [] c = "openInterest" -> 1
                             [] c = "volume" -> 1
                             [] c = "impliedVolatility" -> 0
                             [] c = "gamma" -> v
                             [] c = "delta" -> IF v = NaN THEN NaN ELSE v * sign]>>] :
               v \in GammaVals} : G \in SUBSET GreekCols}

TablesAvail ==
    {<<c, p>> : c \in GreekTables(1, 1, MaxGreekRows), p \in OneRowGreekTables(0 - 1)} \cup
    {<<c, p>> : c \in OneRowGreekTables(1), p \in GreekTables(1, 0 - 1, MaxGreekRows)}

\* the short chains of ChainsOI with greeks on every row: gamma 1, delta +1
\* on the calls and -1 on the puts
WithGreeks(rows, sign) ==
    [columns |-> BaseCols \cup GreekCols,
     rows |-> [i \in 1..Len(rows) |->
                 rows[i] @@ [gamma |-> 1, delta |-> sign]]]

TablesGreek == {<<WithGreeks(ch[1], 1), WithGreeks(ch[2], 0 - 1)>> : ch \in ChainsOI}

ExposureTables == TablesAvail \cup TablesGreek

InitExposure ==
    /\ \E t \in ExposureTables :
          /\ calls_df = t[1]
          /\ puts_df = t[2]
    /\ overview = NotCalled
    /\ max_pain = NotCalled
    /\ exposure = NotCalled
    /\ NoRun

NextExposure == CalculateExposureProfiles /\ UNCHANGED <<page, session, backend>>

SpecExposure == InitExposure /\ [][NextExposure]_vars

(***************************************************************************)
(* The yfinance normalizer, get_options_data_yf.  A source cell is a       *)
(* number, the null cell NaN, a non-numeric string (Text) or the string of *)
(* a number (StrOf(n)).  The answer of a data source is a record [calls,   *)
(* puts] of tables, or Failed when the request raises.                     *)
(***************************************************************************)
Text == 0 - 2000000

StrBase == 0 - 3000000

\* the string whose text is the number n
StrOf(n) == StrBase - n

Failed == [raised |-> TRUE]

\* df.empty
Empty(df) == df.rows = <<>> \/ df.columns = {}

\* pd.to_numeric(x, errors='coerce')
ToNumericIgnore(x) == x

ToNumeric(x) ==
    IF x = Text THEN NaN
    ELSE IF x # NaN /\ x <= StrBase THEN StrBase - x
    ELSE x

\* the columns the normalizer of options.py treats, and those of the older
\* draft in options_scraper/yfinance_options_scraper.py
NumericCols == {"openInterest", "volume", "impliedVolatility", "strike", "delta", "gamma"}

NumericColsDraft == {"openInterest", "volume", "impliedVolatility", "strike"}

\* if col not in df.columns: df[col] = 0
\* df[col] = pd.to_numeric(df[col], errors='coerce').fillna(0)
NormalizeColumn(df, col) ==
    LET d1 == IF col \notin df.columns
              THEN AddCol(df, col, [i \in 1..Len(df.rows) |-> 0])
              ELSE df
    IN  AddCol(d1, col, [i \in 1..Len(d1.rows) |-> FillNa0(ToNumeric(d1.rows[i][col]))])

\* for col in [...]: the columns are independent, any order gives the same table
RECURSIVE NormalizeCols(_, _)
NormalizeCols(df, cols) ==
    IF cols = {} THEN df
    ELSE LET col == CHOOSE c \in cols : TRUE
         IN  NormalizeCols(NormalizeColumn(df, col), cols \ {col})

\* options.py, lines 33-43: what is returned for the answer of the source
YfResult(chain) ==
    IF chain = Failed THEN <<None, None>>
    ELSE <<NormalizeCols(chain.calls, NumericCols), NormalizeCols(chain.puts, NumericCols)>>

\* yfinance_options_scraper.py, lines 37-53
YfDraftResult(chain) ==
    IF chain = Failed THEN <<None, None>>
    ELSE IF Empty(chain.calls) \/ Empty(chain.puts) THEN <<None, None>>
    ELSE <<NormalizeCols(chain.calls, NumericColsDraft),
           NormalizeCols(chain.puts, NumericColsDraft)>>

\* options.py, lines 66-77: the tables of the JSON answer, not normalized
NasdaqResult(chain) ==
    IF chain = Failed THEN <<None, None>>
    ELSE IF Empty(chain.calls) \/ Empty(chain.puts) THEN <<None, None>>
    ELSE <<chain.calls, chain.puts>>

GetOptionsDataYf ==
    /\ pc = "fetch"
    /\ data_source = "yfinance"
    /\ calls_df' = YfResult(option_chain)[1]
    /\ puts_df' = YfResult(option_chain)[2]
    /\ failed' = failed \cup (IF option_chain = Failed THEN {"chain"} ELSE {})
    /\ pc' = "fetched"
    /\ UNCHANGED <<overview, max_pain, exposure, data_source, option_chain,
                   spot_price, gamma_flip_metric, exposure_fig,
                   api_error, messages, exp_dates, analyze_button>>
    /\ UNCHANGED backend

GetOptionsDataYfDraft ==
    /\ pc = "fetch"
    /\ data_source = "yfinance"
    /\ calls_df' = YfDraftResult(option_chain)[1]
    /\ puts_df' = YfDraftResult(option_chain)[2]
    /\ failed' = failed \cup (IF option_chain = Failed THEN {"chain"} ELSE {})
    /\ pc' = "fetched_draft"
    /\ UNCHANGED <<overview, max_pain, exposure, data_source, option_chain,
                   spot_price, gamma_flip_metric, exposure_fig,
                   api_error, messages, exp_dates, analyze_button>>
    /\ UNCHANGED backend

\* st.session_state.api_error = f"NASDAQ API connection failed: {e}"
NasdaqApiError == [message |-> "NASDAQ API connection failed"]

\* a NASDAQ fetcher under st.cache_data: the except branch is executed and
\* sets api_error, unless the value of an earlier run is replayed
Raises(answer, replayed) == answer = Failed /\ ~replayed

ApiErrorAfter(answer, replayed) ==
    IF Raises(answer, replayed) THEN NasdaqApiError ELSE api_error

GetOptionsDataNasdaq ==
    /\ pc = "fetch"
    /\ data_source = "NASDAQ API"
    /\ calls_df' = NasdaqResult(option_chain)[1]
    /\ puts_df' = NasdaqResult(option_chain)[2]
    /\ \E replayed \in BOOLEAN :
          /\ api_error' = ApiErrorAfter(option_chain, replayed)
          /\ failed' = failed \cup (IF Raises(option_chain, replayed) THEN {"chain"} ELSE {})
    /\ pc' = "fetched"
    /\ UNCHANGED <<overview, max_pain, exposure, data_source, option_chain,
                   spot_price, gamma_flip_metric, exposure_fig,
                   messages, exp_dates, analyze_button>>
    /\ UNCHANGED backend

(***************************************************************************)
(* Answers of yfinance for the normalizer: strike, openInterest and        *)
(* impliedVolatility are numbers, the volume, gamma and delta columns are  *)
(* present or not and hold any kind of cell.                               *)
(***************************************************************************)
MaxRawRows == 1

RawCells == {1, NaN, Text, StrOf(2)}

FixedCols == {"strike", "openInterest", "impliedVolatility"}

OptionalCols == {"volume", "gamma", "delta"}

RawRows(V) ==
    {[c \in FixedCols \cup V |->
         IF c \in V THEN f[c] ELSE IF c = "impliedVolatility" THEN 0 ELSE 1] :
     f \in [V -> RawCells]}

RawTables ==
    UNION {{[columns |-> FixedCols \cup V, rows |-> r] :
               r \in SeqsUpTo(RawRows(V), MaxRawRows)} : V \in SUBSET OptionalCols}

PlainTable == Table(<<Row(1, 1, 1)>>)

RawChains ==
    {[calls |-> t, puts |-> PlainTable] : t \in RawTables} \cup
    {[calls |-> PlainTable, puts |-> t] : t \in RawTables}

InitNormalizer ==
    /\ option_chain \in RawChains \cup {Failed}
    /\ data_source = "yfinance"
    /\ pc = "fetch"
    /\ calls_df = None
    /\ puts_df = None
    /\ overview = NotCalled
    /\ max_pain = NotCalled
    /\ exposure = NotCalled
    /\ spot_price = 1
    /\ gamma_flip_metric = None
    /\ exposure_fig = None
    /\ NoSession
    /\ NoBackend

NextNormalizer == GetOptionsDataYf \/ GetOptionsDataYfDraft

SpecNormalizer == InitNormalizer /\ [][NextNormalizer]_vars

(***************************************************************************)
(* plot_exposure_profile and the run of the dashboard script that follows  *)
(* the Analyze button (options.py, lines 288-334).                         *)
(***************************************************************************)
\* strike_range_pct = 0.25
StrikeRangePct == [num |-> 1, den |-> 4]

\* spot * (1 - strike_range_pct) <= strike <= spot * (1 + strike_range_pct)
InStrikeRange(strike, spot) ==
    /\ strike * StrikeRangePct.den >= spot * (StrikeRangePct.den - StrikeRangePct.num)
    /\ strike * StrikeRangePct.den <= spot * (StrikeRangePct.den + StrikeRangePct.num)

Million == 1000000

\* x / 1_000_000, as a fraction
InMillions(x) == [num |-> x, den |-> Million]

\* if gamma_flip > 0: ax.axhline(gamma_flip, ...)
GammaFlipLineAlways(gamma_flip) == {[label |-> "Gamma Flip", y |-> gamma_flip]}

GammaFlipLine(gamma_flip) ==
    IF gamma_flip > 0 THEN {[label |-> "Gamma Flip", y |-> gamma_flip]} ELSE {}

\* profile_df[(index >= min_strike) & (index <= max_strike)]
StrikeFilterNone(profile_df, spot) == profile_df

StrikeFilter(profile_df, spot) ==
    SelectSeq(profile_df, LAMBDA r : InStrikeRange(r.strike, spot))

\* the figure: the bars, the horizontal reference lines and the two
\* cumulative curves; None when there is nothing to plot
PlotExposureProfile(profile_df, gamma_flip, hvl, call_resistance, put_support, spot) ==
    IF profile_df = <<>> THEN None
    ELSE LET shown == StrikeFilter(profile_df, spot)
             idx == 1..Len(shown)
             gex == CumSum([k \in idx |-> shown[k].net_gex])
             dex == CumSum([k \in idx |-> shown[k].net_dex])
         IN  IF shown = <<>> THEN None
             ELSE [bars |-> [k \in idx |-> [strike |-> shown[k].strike,
                                            gex |-> InMillions(shown[k].net_gex)]],
                   hlines |-> {[label |-> "Spot", y |-> spot],
                               [label |-> "Call Resistance", y |-> call_resistance],
                               [label |-> "Put Support", y |-> put_support],
                               [label |-> "HVL", y |-> hvl]} \cup GammaFlipLine(gamma_flip),
                   gex_cumsum |-> [k \in idx |-> InMillions(gex[k])],
                   dex_cumsum |-> [k \in idx |-> InMillions(dex[k])]]

\* f"${gamma_flip:,.2f}" if gamma_flip > 0 else "N/A"
GammaFlipMetric(gamma_flip) ==
    IF gamma_flip > 0 THEN [text |-> "$", amount |-> gamma_flip] ELSE [text |-> "N/A"]

\* calls is not None and puts is not None and not calls.empty and not puts.empty
DataDeliveredNotNone(c, p) == c # None /\ p # None

DataDelivered(c, p) == c # None /\ p # None /\ ~Empty(c) /\ ~Empty(p)

StError(text) == [kind |-> "error", text |-> text]

StWarning(text) == [kind |-> "warning", text |-> text]

\* if 'api_error' not in st.session_state: st.error('Could not retrieve options data.')
RetrieveFailureShown(error) ==
    IF error = None THEN {StError("Could not retrieve options data.")} ELSE {}

\* line 297; the else branch (lines 332-334) reports the failure and the run ends
CheckData ==
    /\ pc = "fetched"
    /\ IF DataDelivered(calls_df, puts_df)
       THEN pc' = "overview" /\ UNCHANGED messages
       ELSE pc' = "done" /\ messages' = messages \cup RetrieveFailureShown(api_error)
    /\ UNCHANGED <<calls_df, puts_df, overview, max_pain, exposure, data_source,
                   option_chain, spot_price, gamma_flip_metric, exposure_fig,
                   api_error, exp_dates, analyze_button, failed>>
    /\ UNCHANGED backend

\* lines 301-303; an exception of an analyzer ends the run
ScriptOverview ==
    /\ pc = "overview"
    /\ AnalyzeOptionsOverview
    /\ pc' = IF overview'.status = "raised" THEN "done" ELSE "max_pain"
    /\ UNCHANGED <<data_source, option_chain, spot_price, gamma_flip_metric, exposure_fig,
                   session>>
    /\ UNCHANGED backend

ScriptMaxPain ==
    /\ pc = "max_pain"
    /\ CalculateMaxPain
    /\ pc' = IF max_pain'.status = "raised" THEN "done" ELSE "exposure"
    /\ UNCHANGED <<data_source, option_chain, spot_price, gamma_flip_metric, exposure_fig,
                   session>>
    /\ UNCHANGED backend

ScriptExposure ==
    /\ pc = "exposure"
    /\ CalculateExposureProfiles
    /\ pc' = "metrics"
    /\ UNCHANGED <<data_source, option_chain, spot_price, gamma_flip_metric, exposure_fig,
                   session>>
    /\ UNCHANGED backend

\* lines 306-317
ScriptMetrics ==
    /\ pc = "metrics"
    /\ gamma_flip_metric' = GammaFlipMetric(exposure.gamma_flip)
    /\ pc' = "plot"
    /\ UNCHANGED <<calls_df, puts_df, overview, max_pain, exposure, data_source,
                   option_chain, spot_price, exposure_fig, session>>
    /\ UNCHANGED backend

\* lines 320-321
ScriptPlot ==
    /\ pc = "plot"
    /\ exposure_fig' = PlotExposureProfile(exposure.profile, exposure.gamma_flip, exposure.hvl,
                                           overview.call_wall, overview.put_wall, spot_price)
    /\ pc' = "done"
    /\ UNCHANGED <<calls_df, puts_df, overview, max_pain, exposure, data_source,
                   option_chain, spot_price, gamma_flip_metric, session>>
    /\ UNCHANGED backend

(***************************************************************************)
(* Answers of the sources for a run of the dashboard: short chains around  *)
(* a spot price, with numeric cells; the NASDAQ answer carries greeks      *)
(* (gamma 1, delta +1 / -1) or none, the yfinance answer none.             *)
(***************************************************************************)
MaxDashRows == 2

DashStrikes == {3, 4, 5}

SpotPrices == {1, 3, 4, 5}

DashRows == {Row(s, oi, 1) : s \in DashStrikes, oi \in {1, 2}}

DashChains ==
    UNION {UNION {[1..k -> DashRows] \X [1..j -> DashRows] : j \in 0..(MaxDashRows - k)}
           : k \in 0..MaxDashRows}

Answers(source) ==
    {Failed} \cup
    {[calls |-> Table(ch[1]), puts |-> Table(ch[2])] : ch \in DashChains} \cup
    (IF source = "NASDAQ API"
     THEN {[calls |-> WithGreeks(ch[1], 1), puts |-> WithGreeks(ch[2], 0 - 1)] : ch \in DashChains}
     ELSE {})

InitDashboard ==
    /\ data_source \in {"NASDAQ API", "yfinance"}
    /\ option_chain \in Answers(data_source)
    /\ spot_price \in SpotPrices
    /\ pc = "fetch"
    /\ calls_df = None
    /\ puts_df = None
    /\ overview = NotCalled
    /\ max_pain = NotCalled
    /\ exposure = NotCalled
    /\ gamma_flip_metric = None
    /\ exposure_fig = None
    /\ api_error = None
    /\ messages = {}
    /\ exp_dates = [list |-> <<"2025-07-11">>]
    /\ analyze_button = TRUE
    /\ failed = {}
    /\ NoBackend

NextDashboard ==
    \/ GetOptionsDataYf
    \/ GetOptionsDataNasdaq
    \/ CheckData
    \/ ScriptOverview
    \/ ScriptMaxPain
    \/ ScriptExposure
    \/ ScriptMetrics
    \/ ScriptPlot

SpecDashboard == InitDashboard /\ [][NextDashboard]_vars

(***************************************************************************)
(* Whole runs of the script, one after the other: from the clearing of     *)
(* api_error (line 261) to the end of the run.                             *)
(***************************************************************************)
DataSources == {"NASDAQ API", "yfinance", "freeoptionschain"}

\* what the spot price service answers: an exception or the last price
SpotAnswers == {Failed, [last_price |-> 0], [last_price |-> 4]}

\* what the expiration service answers: an exception, no date, one date
DateAnswers == {Failed, [list |-> <<>>], [list |-> <<"2025-07-11">>]}

PageChains ==
    {<<<<Row(3, 1, 1)>>, <<Row(4, 2, 1)>>>>, <<<<Row(4, 1, 1)>>, <<>>>>}

PageAnswers ==
    {Failed} \cup {[calls |-> Table(ch[1]), puts |-> Table(ch[2])] : ch \in PageChains}

\* get_spot_price_yf, get_spot_price_nasdaq
SpotPriceOf(answer) == IF answer = Failed THEN 0 ELSE answer.last_price

\* get_available_expiration_dates_yf, get_available_expiration_dates_nasdaq
ExpDatesOf(answer) == IF answer = Failed THEN None ELSE answer

\* line 261, and the script's names of the run before are gone
StartRun ==
    /\ pc \in {"start", "done"}
    /\ pc' = "spot"
    /\ api_error' = None
    /\ messages' = {}
    /\ failed' = {}
    /\ data_source' \in DataSources
    /\ option_chain' \in PageAnswers
    /\ spot_price' = 0
    /\ exp_dates' = None
    /\ analyze_button' = FALSE
    /\ calls_df' = None
    /\ puts_df' = None
    /\ overview' = NotCalled
    /\ max_pain' = NotCalled
    /\ exposure' = NotCalled
    /\ gamma_flip_metric' = None
    /\ exposure_fig' = None
    /\ UNCHANGED backend

\* get_spot_price_foc is not defined: the run ends with the NameError shown
FetchSpotPriceFoc ==
    /\ pc = "spot"
    /\ data_source = "freeoptionschain"
    /\ messages' = messages \cup {StError("NameError")}
    /\ pc' = "done"
    /\ UNCHANGED <<calls_df, puts_df, overview, max_pain, exposure, data_source,
                   option_chain, spot_price, gamma_flip_metric, exposure_fig,
                   api_error, exp_dates, analyze_button, failed>>
    /\ UNCHANGED backend

\* lines 265, 271
FetchSpotPrice ==
    /\ pc = "spot"
    /\ data_source # "freeoptionschain"
    /\ \E answer \in SpotAnswers, replayed \in BOOLEAN :
          /\ spot_price' = SpotPriceOf(answer)
          /\ IF data_source = "NASDAQ API"
             THEN /\ api_error' = ApiErrorAfter(answer, replayed)
                  /\ failed' = failed \cup (IF Raises(answer, replayed) THEN {"spot"} ELSE {})
             ELSE /\ api_error' = api_error
                  /\ failed' = failed \cup (IF answer = Failed THEN {"spot"} ELSE {})
    /\ pc' = "expirations"
    /\ UNCHANGED <<calls_df, puts_df, overview, max_pain, exposure, data_source,
                   option_chain, gamma_flip_metric, exposure_fig,
                   messages, exp_dates, analyze_button>>
    /\ UNCHANGED backend

\* lines 266, 269, 272
FetchExpirations ==
    /\ pc = "expirations"
    /\ \E answer \in DateAnswers, replayed \in BOOLEAN :
          /\ exp_dates' = ExpDatesOf(answer)
          /\ IF data_source = "NASDAQ API"
             THEN /\ api_error' = ApiErrorAfter(answer, replayed)
                  /\ failed' = failed \cup (IF Raises(answer, replayed) THEN {"expirations"} ELSE {})
             ELSE /\ api_error' = api_error
                  /\ failed' = failed \cup (IF answer = Failed THEN {"expirations"} ELSE {})
    /\ pc' = "report"
    /\ UNCHANGED <<calls_df, puts_df, overview, max_pain, exposure, data_source,
                   option_chain, spot_price, gamma_flip_metric, exposure_fig,
                   messages, analyze_button>>
    /\ UNCHANGED backend

\* if exp_dates:
Truthy(dates) == dates # None /\ dates.list # <<>>

\* line 274
ApiErrorShown(error) == IF error = None THEN {} ELSE {StError(error.message)}

\* lines 276-277
SpotFailureShown(spot, error) ==
    IF spot = 0 /\ error = None THEN {StError("Could not fetch data")} ELSE {}

\* lines 278-286
NoDatesShown(spot, dates, error) ==
    IF spot > 0 /\ ~Truthy(dates) /\ error = None
    THEN {StWarning("No expiration dates found.")}
    ELSE {}

\* lines 274-288: the messages of the first fetches, the Analyze button, and
\* whether the chain is fetched
ShowFetchErrors ==
    /\ pc = "report"
    /\ messages' = messages \cup ApiErrorShown(api_error)
                            \cup SpotFailureShown(spot_price, api_error)
                            \cup NoDatesShown(spot_price, exp_dates, api_error)
    /\ analyze_button' \in (IF spot_price > 0 /\ Truthy(exp_dates) THEN BOOLEAN ELSE {FALSE})
    /\ pc' = IF analyze_button' THEN "fetch" ELSE "done"
    /\ UNCHANGED <<calls_df, puts_df, overview, max_pain, exposure, data_source,
                   option_chain, spot_price, gamma_flip_metric, exposure_fig,
                   api_error, exp_dates, failed>>
    /\ UNCHANGED backend

InitPage ==
    /\ pc = "start"
    /\ data_source = "NASDAQ API"
    /\ option_chain = None
    /\ spot_price = 0
    /\ calls_df = None
    /\ puts_df = None
    /\ overview = NotCalled
    /\ max_pain = NotCalled
    /\ exposure = NotCalled
    /\ gamma_flip_metric = None
    /\ exposure_fig = None
    /\ api_error \in {None, NasdaqApiError}
    /\ messages = {}
    /\ exp_dates = None
    /\ analyze_button = FALSE
    /\ failed = {}
    /\ NoBackend

NextPage ==
    \/ StartRun
    \/ FetchSpotPriceFoc
    \/ FetchSpotPrice
    \/ FetchExpirations
    \/ ShowFetchErrors
    \/ GetOptionsDataYf
    \/ GetOptionsDataNasdaq
    \/ CheckData
    \/ ScriptOverview
    \/ ScriptMaxPain
    \/ ScriptExposure
    \/ ScriptMetrics
    \/ ScriptPlot

SpecPage == InitPage /\ [][NextPage]_vars

(***************************************************************************)
(* The analyzers called in any order, any number of times, on the same     *)
(* two tables.                                                             *)
(***************************************************************************)
AnalyzerTables ==
    {<<Table(ch[1]), Table(ch[2])>> : ch \in DashChains} \cup
    {<<WithGreeks(ch[1], 1), WithGreeks(ch[2], 0 - 1)>> : ch \in DashChains}

InitAnalyzers ==
    /\ \E t \in AnalyzerTables :
          /\ calls_df = t[1]
          /\ puts_df = t[2]
    /\ overview = NotCalled
    /\ max_pain = NotCalled
    /\ exposure = NotCalled
    /\ NoRun

NextAnalyzers ==
    \/ AnalyzeOptionsOverview /\ UNCHANGED <<page, session, backend>>
    \/ CalculateMaxPain /\ UNCHANGED <<page, session, backend>>
    \/ CalculateExposureProfiles /\ UNCHANGED <<page, session, backend>>

SpecAnalyzers == InitAnalyzers /\ [][NextAnalyzers]_vars

(***************************************************************************)
(* The NASDAQ scraper (src/options_scraper/scraper.py).  A JSON value is   *)
(* None (null), Str(cs) with cs the sequence of its characters, a record   *)
(* [list |-> items], or an object: a function from its keys to values.     *)
(* A file or a response body holds the text of a value.                    *)
(***************************************************************************)
Str(cs) == [str |-> cs]

EmptyObj == <<>>

EmptyList == [list |-> <<>>]

\* dict.get(key, default)
GetOr(obj, key, default) == IF key \in DOMAIN obj THEN obj[key] ELSE default

\* dict.get(key)
Get(obj, key) == GetOr(obj, key, None)

IsNull(v) == v = None

IsStr(v) == "str" \in DOMAIN v

IsList(v) == "list" \in DOMAIN v

\* the keys of the documents, in the order in which a document lists them
KeyOrder ==
    <<"data", "table", "rows", "filters", "filterlist", "fromdate", "filter",
      "value", "strike",
      "c_Last", "c_Bid", "c_Ask", "c_Volume", "c_Openinterest",
      "p_Last", "p_Bid", "p_Ask", "p_Volume", "p_Openinterest", "drillDownURL">>

KeysOf(obj) == SelectSeq(KeyOrder, LAMBDA k : k \in DOMAIN obj)

RECURSIVE JsonDump(_)
\* json.dump: the text of a value
JsonDump(v) ==
    IF IsNull(v) THEN [null |-> TRUE]
    ELSE IF IsStr(v) THEN [string |-> v.str]
    ELSE IF IsList(v) THEN [array |-> [i \in 1..Len(v.list) |-> JsonDump(v.list[i])]]
    ELSE [object |-> [i \in 1..Len(KeysOf(v)) |->
                         [key |-> KeysOf(v)[i], value |-> JsonDump(v[KeysOf(v)[i]])]]]

\* a file opened for writing and not written yet, and a body that is no JSON
EmptyText == [empty |-> TRUE]

HtmlText == [html |-> TRUE]

\* json.load and response.json() raise on a text that is no JSON document
Decodable(text) == text # EmptyText /\ text # HtmlText

RECURSIVE JsonLoad(_)
\* json.load, response.json(): the value of a text
JsonLoad(text) ==
    IF "null" \in DOMAIN text THEN None
    ELSE IF "string" \in DOMAIN text THEN Str(text.string)
    ELSE IF "array" \in DOMAIN text
         THEN [list |-> [i \in 1..Len(text.array) |-> JsonLoad(text.array[i])]]
    ELSE LET members == text.object
             keys == {members[i].key : i \in 1..Len(members)}
             last(k) == CHOOSE i \in 1..Len(members) :
                            /\ members[i].key = k
                            /\ \A j \in (i + 1)..Len(members) : members[j].key # k
         IN [k \in keys |-> JsonLoad(members[last(k)].value)]

\* s.split(sep)[0] and s.split(sep)[-1] on the characters of s
BeforeFirst(cs, sep) ==
    LET at == {i \in 1..Len(cs) : cs[i] = sep}
    IN IF at = {} THEN cs
       ELSE SubSeq(cs, 1, (CHOOSE i \in at : \A j \in at : i <= j) - 1)

AfterLast(cs, sep) ==
    LET at == {i \in 1..Len(cs) : cs[i] = sep}
    IN IF at = {} THEN cs
       ELSE SubSeq(cs, (CHOOSE i \in at : \A j \in at : j <= i) + 1, Len(cs))

\* s.replace('C', 'P')
ReplaceCP(cs) == [i \in 1..Len(cs) |-> IF cs[i] = "C" THEN "P" ELSE cs[i]]

\* ticker.upper(), on the letters of the tickers used
Upper(cs) ==
    [i \in 1..Len(cs) |->
        IF cs[i] = "a" THEN "A" ELSE IF cs[i] = "m" THEN "M"
        ELSE IF cs[i] = "d" THEN "D" ELSE cs[i]]

\* the truth value of a string or None
NonEmpty(v) == v # None /\ v # Str(<<>>)

Dashes == Str(<<"-", "-">>)

HasQuoteNotEmpty(row, key) == NonEmpty(Get(row, key))

\* row.get('c_Last') and row['c_Last'] != '--'
HasQuote(row, key) == NonEmpty(Get(row, key)) /\ row[key] # Dashes

\* the result of a generator consumed by list(): its records, or the
\* exception that ended it
Yielded(recs) == [status |-> "ok", records |-> recs, error |-> "none"]

RaisedIn(e) == [status |-> "raised", records |-> <<>>, error |-> e]

\* row.get('drillDownURL', '')
DrillDownURL(row) == GetOr(row, "drillDownURL", Str(<<>>))

CallRecord(row, ticker, expiry_date) ==
    [Root |-> Str(Upper(ticker)),
     Calls |-> Str(AfterLast(DrillDownURL(row).str, "/")),
     Last |-> Get(row, "c_Last"), Bid |-> Get(row, "c_Bid"),
     Ask |-> Get(row, "c_Ask"), Vol |-> Get(row, "c_Volume"),
     OpenInt |-> Get(row, "c_Openinterest"), Strike |-> Get(row, "strike"),
     Puts |-> None, ExpiryDate |-> expiry_date]

PutRecord(row, ticker, expiry_date) ==
    [Root |-> Str(Upper(ticker)),
     Puts |-> Str(AfterLast(ReplaceCP(DrillDownURL(row).str), "/")),
     Last |-> Get(row, "p_Last"), Bid |-> Get(row, "p_Bid"),
     Ask |-> Get(row, "p_Ask"), Vol |-> Get(row, "p_Volume"),
     OpenInt |-> Get(row, "p_Openinterest"), Strike |-> Get(row, "strike"),
     Calls |-> None, ExpiryDate |-> expiry_date]

\* the body of the loop for one row: the records it yields
RowRecords(row, ticker, expiry_date) ==
    IF ~NonEmpty(Get(row, "strike")) THEN <<>>
    ELSE (IF HasQuote(row, "c_Last") THEN <<CallRecord(row, ticker, expiry_date)>> ELSE <<>>)
         \o (IF HasQuote(row, "p_Last") THEN <<PutRecord(row, ticker, expiry_date)>> ELSE <<>>)

\* None.split(...) on a row whose drillDownURL is null
RowRaises(row) ==
    /\ NonEmpty(Get(row, "strike"))
    /\ HasQuote(row, "c_Last") \/ HasQuote(row, "p_Last")
    /\ DrillDownURL(row) = None

RECURSIVE ParseRows(_, _, _)
ParseRows(rows, ticker, expiry_date) ==
    IF rows = <<>> THEN Yielded(<<>>)
    ELSE IF RowRaises(Head(rows)) THEN RaisedIn("AttributeError")
    ELSE LET rest == ParseRows(Tail(rows), ticker, expiry_date)
         IN IF rest.status = "raised" THEN rest
            ELSE Yielded(RowRecords(Head(rows), ticker, expiry_date) \o rest.records)

\* json_data.get('data', {}).get('filters', {}).get('fromdate', {})
\*          .get('value', '').split('|')[0], or Failed when a .get or the
\* .split is applied to None
ExpiryDate(data) ==
    LET filters == GetOr(data, "filters", EmptyObj)
        fromdate == IF filters = None THEN None ELSE GetOr(filters, "fromdate", EmptyObj)
        value == IF fromdate = None THEN None ELSE GetOr(fromdate, "value", Str(<<>>))
    IN IF value = None THEN Failed ELSE Str(BeforeFirst(value.str, "|"))

\* parse_json_records consumed by list()
ParseJsonRecords(doc, ticker) ==
    LET data == GetOr(doc, "data", EmptyObj)
        table == IF data = None THEN None ELSE GetOr(data, "table", EmptyObj)
        rows == IF table = None THEN None ELSE GetOr(table, "rows", EmptyList)
    IN IF rows = None /\ (data = None \/ table = None) THEN RaisedIn("AttributeError")
       ELSE IF ExpiryDate(data) = Failed THEN RaisedIn("AttributeError")
       ELSE IF rows = None THEN RaisedIn("TypeError")
       ELSE ParseRows(rows.list, ticker, ExpiryDate(data))

(***************************************************************************)
(* NASDAQOptionsScraper.__call__ consumed by list().  The server calls it  *)
(* from the thread of the scheduled job and from the threads of the Flask  *)
(* requests, on scraper objects that share the cache directory 'cache'; a  *)
(* call is a sequence of steps of its thread.  A cache file is named by    *)
(* the (ticker, expiry) pair.                                              *)
(***************************************************************************)
Callers == {"job", "request"}

Amd == <<"A", "M", "D">>

\* an expiration date is the sequence of its characters, month and day here
NoExpiry == <<>>

July11 == <<"0", "7", "1", "1">>

July18 == <<"0", "7", "1", "8">>

Expiries == {NoExpiry, July11}

DocOf(rows) == [data |-> [table |-> [rows |-> [list |-> rows]]]]

QuoteRow(strike, c_last, p_last) ==
    [strike |-> Str(strike), c_Last |-> Str(c_last), p_Last |-> Str(p_last),
     drillDownURL |-> Str(<<"/", "o", "/", "C", "1">>)]

\* what the NASDAQ API answers for a chain: a chain, the chain a moment
\* later, and the body it sends for an unknown symbol
ScraperDocs ==
    {DocOf(<<QuoteRow(<<"1">>, <<"2">>, <<"3">>)>>),
     DocOf(<<QuoteRow(<<"1">>, <<"4">>, <<"-", "-">>)>>),
     [data |-> None]}

\* the outcome of session.get: an exception, or a response
Responses ==
    {Failed} \cup
    {[status_code |-> code, text |-> text] :
        code \in {200, 503}, text \in {JsonDump(doc) : doc \in ScraperDocs} \cup {HtmlText}}

\* response.raise_for_status()
StatusOkAlways(response) == TRUE

StatusOk(response) == response.status_code = 200

\* session.get, raise_for_status and response.json() all pass
ResponseOk(response) ==
    /\ response # Failed
    /\ StatusOk(response)
    /\ Decodable(response.text)

\* the except clause names RequestException: the decoding error of
\* response.json() is one (requests 2.27 and later) or is not, and then the
\* call raises it
AfterFailedRequest(response) ==
    IF response # Failed /\ StatusOk(response)
    THEN {Yielded(<<>>), RaisedIn("JSONDecodeError")}
    ELSE {Yielded(<<>>)}

NoCall ==
    [pc |-> "idle", ticker |-> Amd, expiry |-> NoExpiry, response |-> None,
     json_data |-> None, http |-> FALSE, fetch_failed |-> FALSE,
     later |-> FALSE, result |-> NotCalled]

CacheFile(c) == <<callers[c].ticker, callers[c].expiry>>

\* os.path.exists(cache_filepath)
Exists(path) == path \in DOMAIN cache_dir

\* the directory after the file has been given the text
Written(path, text) ==
    [f \in DOMAIN cache_dir \cup {path} |-> IF f = path THEN text ELSE cache_dir[f]]

\* the dashboard is not part of the back end
NoDashboard ==
    /\ calls_df = None
    /\ puts_df = None
    /\ overview = NotCalled
    /\ max_pain = NotCalled
    /\ exposure = NotCalled
    /\ pc = "idle"
    /\ data_source = "NASDAQ API"
    /\ option_chain = None
    /\ spot_price = 1
    /\ gamma_flip_metric = None
    /\ exposure_fig = None
    /\ NoSession

dashboard == <<calls_df, puts_df, overview, max_pain, exposure, page, session>>

\* what a step of a scraper call leaves alone
beside_scraper == <<dashboard, sched, data_store, job, reply, json_data, records>>

\* the call c has ended with the result: the first call that fetched the
\* chain of a pair is remembered
Finished(c, result) ==
    /\ callers' = [callers EXCEPT ![c].pc = "done", ![c].result = result]
    /\ first_fetch' =
          IF callers[c].http /\ ~callers[c].fetch_failed /\ CacheFile(c) \notin DOMAIN first_fetch
          THEN [f \in DOMAIN first_fetch \cup {CacheFile(c)} |->
                   IF f = CacheFile(c) THEN result ELSE first_fetch[f]]
          ELSE first_fetch

\* lines 215-217
Call(c) ==
    /\ callers[c].pc \in {"idle", "done"}
    /\ \E expiry \in Expiries :
          callers' = [callers EXCEPT ![c] =
              [NoCall EXCEPT !.expiry = expiry,
                             !.later = <<Amd, expiry>> \in DOMAIN first_fetch,
                             !.pc = IF expiry = NoExpiry THEN "done" ELSE "exists",
                             !.result = IF expiry = NoExpiry THEN Yielded(<<>>) ELSE NotCalled]]
    /\ UNCHANGED <<cache_dir, first_fetch>>
    /\ UNCHANGED beside_scraper

\* line 225
CheckCache(c) ==
    /\ callers[c].pc = "exists"
    /\ callers' = [callers EXCEPT ![c].pc = IF Exists(CacheFile(c)) THEN "load" ELSE "request"]
    /\ UNCHANGED <<cache_dir, first_fetch>>
    /\ UNCHANGED beside_scraper

\* lines 227-228
LoadCache(c) ==
    /\ callers[c].pc = "load"
    /\ IF Decodable(cache_dir[CacheFile(c)])
       THEN /\ callers' = [callers EXCEPT ![c].pc = "parse",
                                          ![c].json_data = JsonLoad(cache_dir[CacheFile(c)])]
            /\ UNCHANGED first_fetch
       ELSE Finished(c, RaisedIn("JSONDecodeError"))
    /\ UNCHANGED cache_dir
    /\ UNCHANGED beside_scraper

\* lines 245-248 and 254-256
Request(c) ==
    /\ callers[c].pc = "request"
    /\ \E response \in Responses :
          IF ResponseOk(response)
          THEN callers' = [callers EXCEPT ![c].pc = "open", ![c].http = TRUE,
                                          ![c].response = response,
                                          ![c].json_data = JsonLoad(response.text)]
          ELSE \E result \in AfterFailedRequest(response) :
                  callers' = [callers EXCEPT ![c].pc = "done", ![c].http = TRUE,
                                             ![c].response = response,
                                             ![c].fetch_failed = TRUE,
                                             ![c].result = result]
    /\ UNCHANGED <<cache_dir, first_fetch>>
    /\ UNCHANGED beside_scraper

\* line 251: open(cache_filepath, 'w') creates or empties the file
OpenCache(c) ==
    /\ callers[c].pc = "open"
    /\ cache_dir' = Written(CacheFile(c), EmptyText)
    /\ callers' = [callers EXCEPT ![c].pc = "dump"]
    /\ UNCHANGED first_fetch
    /\ UNCHANGED beside_scraper

\* line 252
DumpCache(c) ==
    /\ callers[c].pc = "dump"
    /\ cache_dir' = Written(CacheFile(c), JsonDump(callers[c].json_data))
    /\ callers' = [callers EXCEPT ![c].pc = "parse"]
    /\ UNCHANGED first_fetch
    /\ UNCHANGED beside_scraper

\* lines 259-260
YieldRecords(c) ==
    /\ callers[c].pc = "parse"
    /\ Finished(c, ParseJsonRecords(callers[c].json_data, callers[c].ticker))
    /\ UNCHANGED cache_dir
    /\ UNCHANGED beside_scraper

InitScraper ==
    /\ NoDashboard
    /\ cache_dir = <<>>
    /\ callers = [c \in Callers |-> NoCall]
    /\ first_fetch = <<>>
    /\ sched = None
    /\ data_store = <<>>
    /\ job = None
    /\ reply = None
    /\ json_data = None
    /\ records = None

NextScraper ==
    \/ \E c \in Callers : Call(c)
    \/ \E c \in Callers : CheckCache(c)
    \/ \E c \in Callers : LoadCache(c)
    \/ \E c \in Callers : Request(c)
    \/ \E c \in Callers : OpenCache(c)
    \/ \E c \in Callers : DumpCache(c)
    \/ \E c \in Callers : YieldRecords(c)

SpecScraper == InitScraper /\ [][NextScraper]_vars

(***************************************************************************)
(* get_expiration_dates, and a call of the scraper run to its end by one   *)
(* thread.                                                                 *)
(***************************************************************************)
CharOrder == <<"0", "1", "2", "3", "4", "5", "6", "7", "8", "9">>

Code(ch) == CHOOSE i \in 1..Len(CharOrder) : CharOrder[i] = ch

RECURSIVE LexLess(_, _)
\* a < b on strings
LexLess(a, b) ==
    IF b = <<>> THEN FALSE
    ELSE IF a = <<>> THEN TRUE
    ELSE IF Head(a) # Head(b) THEN Code(Head(a)) < Code(Head(b))
    ELSE LexLess(Tail(a), Tail(b))

RECURSIVE SortedStrings(_)
\* sorted(list(all_dates))
SortedStrings(S) ==
    IF S = {} THEN <<>>
    ELSE LET least == CHOOSE x \in S : \A y \in S \ {x} : LexLess(x, y)
         IN <<least>> \o SortedStrings(S \ {least})

Contains(cs, ch) == \E i \in 1..Len(cs) : cs[i] = ch

\* a returned list
ListOf(items) == [list |-> items]

\* the dates of a decoded document
DatesOfDocument(raw_data) ==
    LET main_data == GetOr(raw_data, "data", raw_data)
        filter_list == GetOr(main_data, "filterlist", EmptyObj)
        fromdate == GetOr(filter_list, "fromdate", EmptyObj)
        filter == IF fromdate = None THEN None ELSE GetOr(fromdate, "filter", EmptyList)
        dates_raw == [i \in 1..Len(filter.list) |-> filter.list[i].value]
        all_dates == {BeforeFirst(dates_raw[i].str, "|") :
                         i \in {j \in 1..Len(dates_raw) : Contains(dates_raw[j].str, "|")}}
    IN IF main_data = None \/ main_data = EmptyObj THEN ListOf(<<>>)
       ELSE IF filter_list = None \/ filter_list = EmptyObj THEN ListOf(<<>>)
       ELSE IF fromdate = None THEN RaisedIn("AttributeError")
       ELSE IF filter = None THEN RaisedIn("TypeError")
       ELSE IF dates_raw = <<>> THEN ListOf(<<>>)
       ELSE ListOf(SortedStrings(all_dates))

\* get_expiration_dates: every except branch returns []
GetExpirationDates(response) ==
    IF response = Failed THEN ListOf(<<>>)
    ELSE IF ~StatusOk(response) THEN ListOf(<<>>)
    ELSE IF response.text = EmptyText THEN ListOf(<<>>)
    ELSE IF ~Decodable(response.text) THEN ListOf(<<>>)
    ELSE DatesOfDocument(JsonLoad(response.text))

\* the fetch of get_expiration_dates came to nothing: network error, error
\* status, empty or undecodable body
FetchFailed(response) ==
    \/ response = Failed
    \/ ~StatusOk(response)
    \/ ~Decodable(response.text)

\* the call ended with an exception
HasRaised(outcome) == "error" \in DOMAIN outcome

\* if not expiration_dates, for a value that was returned
NoDates(dates) == dates = None \/ dates = ListOf(<<>>)

\* __call__ consumed by list() with no other call under way: the cache
\* directory after the call and its result.  caught: the decoding error of
\* response.json() is a RequestException
ScraperCall(cache, ticker, expiry, response, caught) ==
    LET path == <<ticker, expiry>>
    IN IF expiry = NoExpiry THEN [cache |-> cache, result |-> Yielded(<<>>)]
       ELSE IF path \in DOMAIN cache
            THEN [cache |-> cache,
                  result |-> IF Decodable(cache[path])
                             THEN ParseJsonRecords(JsonLoad(cache[path]), ticker)
                             ELSE RaisedIn("JSONDecodeError")]
       ELSE IF ResponseOk(response)
            THEN [cache |-> [f \in DOMAIN cache \cup {path} |->
                                IF f = path THEN JsonDump(JsonLoad(response.text))
                                ELSE cache[f]],
                  result |-> ParseJsonRecords(JsonLoad(response.text), ticker)]
       ELSE [cache |-> cache,
             result |-> IF response # Failed /\ StatusOk(response) /\ ~caught
                        THEN RaisedIn("JSONDecodeError")
                        ELSE Yielded(<<>>)]

(***************************************************************************)
(* scheduler.scrape_and_save: the retry loop.  sched.log lists the         *)
(* attempts of the run, sched.sleeps counts its time.sleep calls and       *)
(* sched.files holds the snapshot files of the run.                        *)
(***************************************************************************)
MAX_RETRIES == 3

MaxDates == 2

FilterOf(values) ==
    [data |-> [filterlist |-> [fromdate |-> [filter |->
        [list |-> [i \in 1..Len(values) |-> [value |-> Str(values[i])]]]]]]]

\* the values of the filter: 'date|date', or a value without the bar
DateValues == {July11 \o <<"|">> \o July11, July18 \o <<"|">> \o July18, July11}

DateDocs ==
    {FilterOf(values) : values \in UNION {[1..k -> DateValues] : k \in 0..MaxDates}}
    \cup {[data |-> None], [data |-> [filterlist |-> [fromdate |-> None]]]}

DateResponses ==
    {Failed, [status_code |-> 503, text |-> HtmlText],
     [status_code |-> 200, text |-> HtmlText], [status_code |-> 200, text |-> EmptyText]}
    \cup {[status_code |-> 200, text |-> JsonDump(doc)] : doc \in DateDocs}

\* what get_expiration_dates makes of the responses
DateOutcomes ==
    {[fetch_failed |-> FetchFailed(answer), dates |-> GetExpirationDates(answer)] :
        answer \in DateResponses}

\* the chain responses of a job: a chain, a document without data, a
\* document whose rows are null, and a failed request
JobResponses ==
    {Failed,
     [status_code |-> 200, text |-> JsonDump(DocOf(<<QuoteRow(<<"1">>, <<"2">>, <<"3">>)>>))],
     [status_code |-> 200, text |-> JsonDump([data |-> None])],
     [status_code |-> 200, text |-> JsonDump([data |-> [table |-> [rows |-> None]]])]}

\* line 72: i < MAX_RETRIES - 1
RetryFollowsAlways(i) == TRUE

RetryFollows(i) == i < MAX_RETRIES - 1

NoJob ==
    [pc |-> "idle", i |-> 0, log |-> <<>>, sleeps |-> 0, files |-> {},
     expiration_dates |-> <<>>]

beside_scheduler == <<dashboard, callers, first_fetch, data_store, job, reply,
                      json_data, records>>

\* lines 70-76: the attempt has ended with an exception
AttemptFailed(found) ==
    [sched EXCEPT !.log = Append(@, [dates_found |-> found, ok |-> FALSE]),
                  !.expiration_dates = <<>>,
                  !.pc = IF RetryFollows(sched.i) THEN "sleep" ELSE "done"]

\* the job is started by the cron trigger and enters the loop
StartJob ==
    /\ sched.pc \in {"idle", "done"}
    /\ sched' = [NoJob EXCEPT !.pc = "dates"]
    /\ UNCHANGED cache_dir
    /\ UNCHANGED beside_scheduler

\* lines 36-47
FetchDates ==
    /\ sched.pc = "dates"
    /\ \E outcome \in DateOutcomes :
          LET expiration_dates == outcome.dates
          IN sched' = IF HasRaised(expiration_dates) \/ NoDates(expiration_dates)
                      THEN AttemptFailed(FALSE)
                      ELSE [sched EXCEPT !.pc = "expiry",
                                         !.expiration_dates = expiration_dates.list]
    /\ UNCHANGED cache_dir
    /\ UNCHANGED beside_scheduler

\* lines 49-65: one pass of the loop over the dates.
\* disk_ok: NASDAQOptionsSerializer._to_json writes the file
SaveSnapshot ==
    /\ sched.pc = "expiry"
    /\ sched.expiration_dates # <<>>
    /\ \E response \in JobResponses, disk_ok \in BOOLEAN :
          LET expiry == Head(sched.expiration_dates)
              out == ScraperCall(cache_dir, Amd, expiry, response, TRUE)
          IN /\ cache_dir' = out.cache
             /\ sched' =
                   IF out.result.status = "raised" THEN AttemptFailed(TRUE)
                   ELSE IF out.result.records = <<>>
                   THEN [sched EXCEPT !.expiration_dates = Tail(@)]
                   ELSE IF ~disk_ok THEN AttemptFailed(TRUE)
                   ELSE [sched EXCEPT
                           !.expiration_dates = Tail(@),
                           !.files = @ \cup {[file |-> expiry, records |-> out.result.records]}]
    /\ UNCHANGED beside_scheduler

\* lines 67-68
ReturnFromJob ==
    /\ sched.pc = "expiry"
    /\ sched.expiration_dates = <<>>
    /\ sched' = [sched EXCEPT !.log = Append(@, [dates_found |-> TRUE, ok |-> TRUE]),
                              !.pc = "done"]
    /\ UNCHANGED cache_dir
    /\ UNCHANGED beside_scheduler

\* line 74, and the next value of i
SleepBeforeRetry ==
    /\ sched.pc = "sleep"
    /\ sched' = [sched EXCEPT !.sleeps = @ + 1, !.i = @ + 1,
                              !.pc = IF sched.i + 1 < MAX_RETRIES THEN "dates" ELSE "done"]
    /\ UNCHANGED cache_dir
    /\ UNCHANGED beside_scheduler

InitScheduler ==
    /\ NoDashboard
    /\ cache_dir = <<>>
    /\ callers = <<>>
    /\ first_fetch = <<>>
    /\ sched = NoJob
    /\ data_store = <<>>
    /\ job = None
    /\ reply = None
    /\ json_data = None
    /\ records = None

NextScheduler ==
    \/ StartJob
    \/ FetchDates
    \/ SaveSnapshot
    \/ ReturnFromJob
    \/ SleepBeforeRetry

SpecScheduler == InitScheduler /\ [][NextScheduler]_vars

(***************************************************************************)
(* The server (src/server.py): the scheduled scrape_and_save job with      *)
(* process_single_expiry and the CSV store, and the endpoints              *)
(* /api/expirations and /api/chart_data.  A CSV file is the sequence of    *)
(* its lines, the header or a data row; data_store maps the (ticker,       *)
(* expiry) pair of a file to it.                                           *)
(***************************************************************************)
TICKERS_TO_SCRAPE == <<Amd>>

MaxRuns == 1

Digits == [i \in 1..10 |-> i - 1]

IsDigit(ch) == \E i \in 1..Len(CharOrder) : CharOrder[i] = ch

\* str(value).replace(',', '')
WithoutCommas(cs) == SelectSeq(cs, LAMBDA ch : ch # ",")

RECURSIVE DecimalValue(_)
DecimalValue(cs) ==
    IF cs = <<>> THEN 0
    ELSE 10 * DecimalValue(SubSeq(cs, 1, Len(cs) - 1)) + Digits[Code(cs[Len(cs)])]

IsNumeral(cs) == cs # <<>> /\ \A i \in 1..Len(cs) : IsDigit(cs[i])

\* safe_to_int: the number of a string of digits and commas, 0 for None
\* and for everything int() rejects
SafeToInt(value) ==
    IF value = None THEN 0
    ELSE IF IsNumeral(WithoutCommas(value.str)) THEN DecimalValue(WithoutCommas(value.str))
    ELSE 0

\* safe_to_float, on the strings without a decimal point
SafeToFloat(value) == [num |-> SafeToInt(value), den |-> 1]

Header == [header |-> TRUE]

\* 'call' if record.get('Calls') else 'put'
OptionTypeBySide(record) == IF record.Puts = None THEN "call" ELSE "put"

OptionType(record) == IF NonEmpty(record.Calls) THEN "call" ELSE "put"

\* the row written for a record
CsvRow(record, timestamp, market_session) ==
    [timestamp |-> timestamp, market_session |-> market_session,
     strike |-> SafeToFloat(record.Strike), type |-> OptionType(record),
     open_interest |-> SafeToInt(record.OpenInt), volume |-> SafeToInt(record.Vol),
     bid |-> SafeToFloat(record.Bid), ask |-> SafeToFloat(record.Ask)]

\* writer.writeheader() if the file did not exist
HeaderAlways(file_exists) == <<Header>>

HeaderIfNew(file_exists) == IF file_exists THEN <<>> ELSE <<Header>>

\* lines 95-114: the file after the records have been appended
Appended(store, path, recs, timestamp, market_session) ==
    LET file_exists == path \in DOMAIN store
        before == IF file_exists THEN store[path] ELSE <<>>
        rows == [i \in 1..Len(recs) |-> CsvRow(recs[i], timestamp, market_session)]
    IN [f \in DOMAIN store \cup {path} |->
           IF f = path THEN before \o HeaderIfNew(file_exists) \o rows ELSE store[f]]

\* lines 90-93: the except clause of process_single_expiry
SkipsDate(result) == result.status = "raised" /\ result.error = "TypeError"

\* the chain responses of the server: a chain, a chain whose rows have no
\* or an empty drillDownURL, a document without data, a document whose
\* rows are null, and a failed request
UrlLessRow ==
    [strike |-> Str(<<"1">>), c_Last |-> Str(<<"2">>), p_Last |-> Str(<<"3">>)]

EmptyUrlRow ==
    [strike |-> Str(<<"1", ",", "0">>), c_Last |-> Str(<<"2">>), p_Last |-> Str(<<"-", "-">>),
     c_Volume |-> Str(<<"7">>), drillDownURL |-> Str(<<>>)]

ServerResponses ==
    {Failed,
     [status_code |-> 200, text |-> JsonDump(DocOf(<<QuoteRow(<<"1">>, <<"2">>, <<"3">>)>>))],
     [status_code |-> 200, text |-> JsonDump(DocOf(<<UrlLessRow, EmptyUrlRow>>))],
     [status_code |-> 200, text |-> JsonDump([data |-> None])],
     [status_code |-> 200, text |-> JsonDump([data |-> [table |-> [rows |-> None]]])]}

NoScrape ==
    [pc |-> "idle", run |-> 0, tickers |-> <<>>, ticker |-> Amd,
     expiration_dates |-> <<>>, found |-> {}, processed |-> {}, records |-> <<>>,
     written |-> None]

beside_server == <<dashboard, callers, first_fetch, sched, json_data, records>>

\* lines 41-48
StartScrape ==
    /\ job.pc \in {"idle", "done"}
    /\ job.run < MaxRuns
    /\ job' = [NoScrape EXCEPT !.pc = "ticker", !.run = job.run + 1,
                               !.tickers = TICKERS_TO_SCRAPE]
    /\ UNCHANGED <<cache_dir, data_store, reply>>
    /\ UNCHANGED beside_server

\* lines 50-60 and 65-67: the dates of the next ticker
NextTicker ==
    /\ job.pc = "ticker"
    /\ job.tickers # <<>>
    /\ \E outcome \in DateOutcomes :
          LET expiration_dates == outcome.dates
          IN job' = IF HasRaised(expiration_dates) \/ NoDates(expiration_dates)
                    THEN [job EXCEPT !.tickers = Tail(@)]
                    ELSE [job EXCEPT
                            !.pc = "expiry", !.ticker = Head(job.tickers),
                            !.expiration_dates = expiration_dates.list,
                            !.found = @ \cup {<<Head(job.tickers), expiration_dates.list[i]>> :
                                                i \in 1..Len(expiration_dates.list)}]
    /\ UNCHANGED <<cache_dir, data_store, reply>>
    /\ UNCHANGED beside_server

\* lines 61-63 and 72-116: process_single_expiry for the next date, and
\* the except clause of scrape_and_save (lines 65-67) for what it raises
ProcessSingleExpiry ==
    /\ job.pc = "expiry"
    /\ job.expiration_dates # <<>>
    /\ \E response \in ServerResponses :
          LET expiry == Head(job.expiration_dates)
              path == <<job.ticker, expiry>>
              out == ScraperCall(cache_dir, job.ticker, expiry, response, TRUE)
              done == [job EXCEPT !.expiration_dates = Tail(@),
                                  !.processed = @ \cup {path},
                                  !.records = out.result.records,
                                  !.written = None]
          IN /\ cache_dir' = out.cache
             /\ IF out.result.status = "raised"
                THEN /\ job' = IF SkipsDate(out.result) THEN done
                               ELSE [done EXCEPT !.pc = "ticker", !.tickers = Tail(@),
                                                 !.expiration_dates = <<>>]
                     /\ UNCHANGED data_store
                ELSE IF out.result.records = <<>>
                THEN job' = done /\ UNCHANGED data_store
                ELSE /\ job' = [done EXCEPT !.written = [path |-> path]]
                     /\ data_store' = Appended(data_store, path, out.result.records,
                                               job.run, "pre_market")
    /\ UNCHANGED reply
    /\ UNCHANGED beside_server

\* the loop over the dates has ended
NextOfTickers ==
    /\ job.pc = "expiry"
    /\ job.expiration_dates = <<>>
    /\ job' = [job EXCEPT !.pc = "ticker", !.tickers = Tail(@)]
    /\ UNCHANGED <<cache_dir, data_store, reply>>
    /\ UNCHANGED beside_server

\* line 69
EndScrape ==
    /\ job.pc = "ticker"
    /\ job.tickers = <<>>
    /\ job' = [job EXCEPT !.pc = "done"]
    /\ UNCHANGED <<cache_dir, data_store, reply>>
    /\ UNCHANGED beside_server

\* lines 153-161; an exception of the view is answered with status 500
GetExpirations ==
    /\ \E outcome \in DateOutcomes :
          LET dates == outcome.dates
          IN reply' = [endpoint |-> "expirations", fetch_failed |-> outcome.fetch_failed,
                       records |-> <<>>,
                       status |-> IF HasRaised(dates) \/ dates = None THEN 500 ELSE 200,
                       body |-> IF HasRaised(dates) \/ dates = None
                                THEN [error |-> TRUE] ELSE dates]
    /\ UNCHANGED <<cache_dir, data_store, job>>
    /\ UNCHANGED beside_server

\* lines 174-177: the entry of raw_data for a record, if any
ChartEntries(record) ==
    LET entry(type) == [type |-> type, strike |-> SafeToFloat(record.Strike),
                        volume |-> SafeToInt(record.Vol),
                        open_interest |-> SafeToInt(record.OpenInt)]
    IN IF NonEmpty(record.Calls) THEN <<entry("call")>>
       ELSE IF NonEmpty(record.Puts) THEN <<entry("put")>>
       ELSE <<>>

RECURSIVE RawData(_)
RawData(recs) ==
    IF recs = <<>> THEN <<>> ELSE ChartEntries(Head(recs)) \o RawData(Tail(recs))

\* lines 163-183, with the aggregation of preprocess_for_chart left out:
\* the body holds raw_data
GetChartData ==
    /\ \E expiry \in {July11, July18}, response \in ServerResponses :
          LET out == ScraperCall(cache_dir, Amd, expiry, response, TRUE)
              raw_data == RawData(out.result.records)
          IN /\ cache_dir' = out.cache
             /\ reply' = [endpoint |-> "chart_data", fetch_failed |-> FALSE,
                          records |-> out.result.records,
                          status |-> IF out.result.status = "raised" THEN 500
                                     ELSE IF raw_data = <<>> THEN 404 ELSE 200,
                          body |-> IF out.result.status = "raised" \/ raw_data = <<>>
                                   THEN [error |-> TRUE] ELSE ListOf(raw_data)]
    /\ UNCHANGED <<data_store, job>>
    /\ UNCHANGED beside_server

\* the data store when the server starts: empty, or with a file of an
\* earlier day
EarlierStores ==
    {<<>>,
     Appended(<<>>, <<Amd, July11>>,
              ParseJsonRecords(DocOf(<<QuoteRow(<<"1">>, <<"5">>, <<"6">>)>>), Amd).records,
              0, "post_market")}

InitServer ==
    /\ NoDashboard
    /\ cache_dir = <<>>
    /\ callers = <<>>
    /\ first_fetch = <<>>
    /\ sched = None
    /\ data_store \in EarlierStores
    /\ job = NoScrape
    /\ reply = None
    /\ json_data = None
    /\ records = None

NextServer ==
    \/ StartScrape
    \/ NextTicker
    \/ ProcessSingleExpiry
    \/ NextOfTickers
    \/ EndScrape
    \/ GetChartData

SpecServer == InitServer /\ [][NextServer]_vars

\* the requests alone, with no scrape job
InitApi ==
    /\ NoDashboard
    /\ cache_dir = <<>>
    /\ callers = <<>>
    /\ first_fetch = <<>>
    /\ sched = None
    /\ data_store = <<>>
    /\ job = NoScrape
    /\ reply = None
    /\ json_data = None
    /\ records = None

NextApi ==
    \/ GetExpirations
    \/ GetChartData

SpecApi == InitApi /\ [][NextApi]_vars

(***************************************************************************)
(* parse_json_records applied to a document: rows with or without a        *)
(* strike, with an empty, a '--' or a real last price of the call, and     *)
(* with no, a '--' or a real last price of the put.                        *)
(***************************************************************************)
MaxParseRows == 2

StrikeCells == {None, Str(<<>>), Str(<<"1">>)}

CallCells == {Str(<<>>), Dashes, Str(<<"2">>)}

PutCells == {None, Dashes, Str(<<"3">>)}

\* a row; None stands for a key the row does not have
RowWith(strike, c_last, p_last) ==
    [k \in {"c_Last", "drillDownURL"}
           \cup (IF strike = None THEN {} ELSE {"strike"})
           \cup (IF p_last = None THEN {} ELSE {"p_Last"}) |->
        IF k = "strike" THEN strike
        ELSE IF k = "c_Last" THEN c_last
        ELSE IF k = "p_Last" THEN p_last
        ELSE Str(<<"/", "o", "/", "C", "1">>)]

ParsedRows ==
    {RowWith(strike, c_last, p_last) :
        strike \in StrikeCells, c_last \in CallCells, p_last \in PutCells}

ParsedDocs ==
    {DocOf(rows) : rows \in UNION {[1..k -> ParsedRows] : k \in 0..MaxParseRows}}
    \cup {EmptyObj, [data |-> None]}

InitParse ==
    /\ NoDashboard
    /\ cache_dir = <<>>
    /\ callers = <<>>
    /\ first_fetch = <<>>
    /\ sched = None
    /\ data_store = <<>>
    /\ job = None
    /\ reply = None
    /\ json_data \in ParsedDocs
    /\ records = None

\* list(parse_json_records(json_data, ticker))
ParseJsonRecordsCall ==
    /\ records = None
    /\ \E ticker \in {Amd, <<"a", "m", "d">>} :
          records' = ParseJsonRecords(json_data, ticker)
    /\ UNCHANGED <<dashboard, cache_dir, callers, first_fetch, sched, data_store, job,
                   reply, json_data>>

NextParse == ParseJsonRecordsCall

SpecParse == InitParse /\ [][NextParse]_vars

(***************************************************************************)
(* Vocabulary of the properties, stated on the tables themselves.          *)
(***************************************************************************)
RowIdx(df) == 1..Len(df.rows)

\* the sum of the values of a function with a finite domain
RECURSIVE SumFn(_)
SumFn(f) ==
    IF DOMAIN f = {} THEN 0
    ELSE LET i == CHOOSE x \in DOMAIN f : TRUE
         IN  f[i] + SumFn([j \in DOMAIN f \ {i} |-> f[j]])

\* the rows of a table restricted to the four columns of the sources
BaseRows(df) == [i \in RowIdx(df) |-> [c \in BaseCols |-> df.rows[i][c]]]

Total(df, col) == SumFn([i \in RowIdx(df) |-> df.rows[i][col]])

\* summed open interest of one side at strike s, 0 when the side has no row there
OIAt(df, s) ==
    SumFn([i \in {j \in RowIdx(df) : df.rows[j]["strike"] = s} |->
              df.rows[i]["openInterest"]])

Candidates == StrikeSet(calls_df) \cup StrikeSet(puts_df)

callLoss(P) ==
    SumFn([i \in {j \in RowIdx(calls_df) : calls_df.rows[j]["strike"] < P} |->
              (P - calls_df.rows[i]["strike"]) * calls_df.rows[i]["openInterest"]])

putLoss(P) ==
    SumFn([i \in {j \in RowIdx(puts_df) : puts_df.rows[j]["strike"] > P} |->
              (puts_df.rows[i]["strike"] - P) * puts_df.rows[i]["openInterest"]])

totalLoss(P) == callLoss(P) + putLoss(P)

Score(r) == r["openInterest"] * r["volume"]

\* a fraction [num, den] equals p / q
IsRatio(x, p, q) == x.den > 0 /\ x.num * q = p * x.den

IsZero(x) == x.den > 0 /\ x.num = 0

(***************************************************************************)
(* C1: pcrOI = totalPutOI / totalCallOI when totalCallOI > 0 and 0         *)
(* otherwise, pcrVol likewise with the volumes; the ratio is a finite      *)
(* number that is never negative.                                          *)
(***************************************************************************)
C1_PutCallRatios ==
    overview.status = "ok" =>
        /\ IF Total(calls_df, "openInterest") > 0
           THEN IsRatio(overview.pcr_oi, Total(puts_df, "openInterest"),
                        Total(calls_df, "openInterest"))
           ELSE IsZero(overview.pcr_oi)
        /\ IF Total(calls_df, "volume") > 0
           THEN IsRatio(overview.pcr_vol, Total(puts_df, "volume"),
                        Total(calls_df, "volume"))
           ELSE IsZero(overview.pcr_vol)
        /\ overview.pcr_oi.den > 0 /\ overview.pcr_oi.num >= 0
        /\ overview.pcr_vol.den > 0 /\ overview.pcr_vol.num >= 0
        /\ overview.put_call_ratio_oi >= 0 /\ overview.put_call_ratio_vol >= 0
        /\ (BaseRows(calls_df) = ScenarioPcr[1] /\ BaseRows(puts_df) = ScenarioPcr[2])
              => /\ IsRatio(overview.pcr_oi, 30, 50)
                 /\ overview.put_call_ratio_oi = 60

\* a zero call total with a positive put total, on both ratios
C1_Witness ==
    /\ overview.status = "ok"
    /\ Total(calls_df, "openInterest") = 0 /\ Total(puts_df, "openInterest") > 0
    /\ Total(calls_df, "volume") = 0 /\ Total(puts_df, "volume") > 0
    /\ IsZero(overview.pcr_oi) /\ IsZero(overview.pcr_vol)

(***************************************************************************)
(* C2: the max-pain strike M minimises the total loss: totalLoss(M) <=     *)
(* totalLoss(P) for every candidate P of the union of the strikes.         *)
(***************************************************************************)
C2_MaxPainIsGlobalMinimum ==
    (max_pain.status # "none" /\ Candidates # {}) =>
        /\ max_pain.status = "ok"
        /\ \A P \in Candidates : totalLoss(max_pain.value) <= totalLoss(P)

\* three candidates with three different losses, the minimum in the middle
C2_Witness ==
    /\ max_pain.status = "ok"
    /\ Cardinality(Candidates) = 3
    /\ \A P \in Candidates \ {max_pain.value} : totalLoss(max_pain.value) < totalLoss(P)
    /\ \E P \in Candidates : P < max_pain.value
    /\ \E P \in Candidates : P > max_pain.value

(***************************************************************************)
(* C3: for a chain with at least one strike the max-pain value is one of   *)
(* the candidate strikes, also when the two sides have different strikes.  *)
(***************************************************************************)
C3_MaxPainIsCandidate ==
    (max_pain.status # "none" /\ Candidates # {}) =>
        /\ max_pain.status = "ok"
        /\ max_pain.value \in Candidates

\* an asymmetric chain whose max pain is a strike the calls do not have
C3_Witness ==
    /\ max_pain.status = "ok"
    /\ StrikeSet(calls_df) # {} /\ StrikeSet(puts_df) # {}
    /\ StrikeSet(calls_df) \cap StrikeSet(puts_df) = {}
    /\ max_pain.value \in StrikeSet(puts_df)

(***************************************************************************)
(* C4: among candidates sharing the minimum total loss the smallest strike *)
(* is returned; the scenario chain (calls 90: 100, 110: 10; puts 90: 5,    *)
(* 110: 100) has such a tie and yields 90.                                 *)
(***************************************************************************)
C4_MaxPainTieSmallest ==
    max_pain.status = "ok" =>
        /\ \A P \in Candidates :
              totalLoss(P) = totalLoss(max_pain.value) => max_pain.value <= P
        /\ (calls_df.rows = ScenarioMaxPain[1] /\ puts_df.rows = ScenarioMaxPain[2])
              => max_pain.value = 90

\* the scenario chain: 90 and 110 both lose 2000, 90 is returned
C4_Witness ==
    /\ max_pain.status = "ok"
    /\ calls_df.rows = ScenarioMaxPain[1] /\ puts_df.rows = ScenarioMaxPain[2]
    /\ totalLoss(90) = 2000 /\ totalLoss(110) = 2000
    /\ max_pain.value = 90

(***************************************************************************)
(* C5: with no strikes at all (calls and puts both without rows)           *)
(* calculate_max_pain returns the sentinel 0 and does not fail.            *)
(***************************************************************************)
C5_EmptyChainReturnsZero ==
    (max_pain.status # "none" /\ Candidates = {}) =>
        /\ max_pain.status = "ok"
        /\ max_pain.value = 0

(***************************************************************************)
(* C6: for a non-empty chain the call wall is a strike of the union of the *)
(* call and put strikes whose summed call open interest is maximal over    *)
(* that union (0 where the calls have no row), the put wall likewise for   *)
(* the summed put open interest.                                           *)
(***************************************************************************)
C6_WallsAreMaximalUnionStrikes ==
    (overview.status # "none" /\ Candidates # {}) =>
        /\ overview.status = "ok"
        /\ overview.call_wall \in Candidates
        /\ overview.put_wall \in Candidates
        /\ \A s \in Candidates : OIAt(calls_df, overview.call_wall) >= OIAt(calls_df, s)
        /\ \A s \in Candidates : OIAt(puts_df, overview.put_wall) >= OIAt(puts_df, s)

\* an asymmetric chain: each wall is a strike that the other side lacks, and
\* a side has several rows at its wall
C6_Witness ==
    /\ overview.status = "ok"
    /\ overview.put_wall \notin StrikeSet(calls_df)
    /\ overview.call_wall \notin StrikeSet(puts_df)
    /\ Len(GroupRows(calls_df, overview.call_wall)) >= 2
    /\ OIAt(puts_df, overview.put_wall) > 0

(***************************************************************************)
(* C7: among the strikes tied for the maximum summed open interest of a    *)
(* side the wall is the smallest; in particular, when every strike has 0   *)
(* open interest on that side the wall is the smallest strike of the union.*)
(***************************************************************************)
C7_WallTieSmallest ==
    overview.status = "ok" =>
        /\ \A s \in Candidates :
              OIAt(calls_df, s) = OIAt(calls_df, overview.call_wall) => overview.call_wall <= s
        /\ \A s \in Candidates :
              OIAt(puts_df, s) = OIAt(puts_df, overview.put_wall) => overview.put_wall <= s
        /\ (\A s \in Candidates : OIAt(calls_df, s) = 0)
              => \A s \in Candidates : overview.call_wall <= s
        /\ (\A s \in Candidates : OIAt(puts_df, s) = 0)
              => \A s \in Candidates : overview.put_wall <= s

\* the calls have no open interest anywhere and the puts tie at two strikes
C7_Witness ==
    /\ overview.status = "ok"
    /\ Cardinality(Candidates) >= 2
    /\ \A s \in Candidates : OIAt(calls_df, s) = 0
    /\ \A s \in Candidates : overview.call_wall <= s
    /\ \E s \in Candidates :
          /\ s > overview.put_wall
          /\ OIAt(puts_df, s) = OIAt(puts_df, overview.put_wall)
          /\ OIAt(puts_df, s) > 0

(***************************************************************************)
(* C8: each top-5 list holds min(5, number of rows) rows of its side, no   *)
(* row left out scores higher (openInterest * volume) than a listed row,   *)
(* the list is in descending score order, and rows of equal score are      *)
(* ordered and selected by ascending position in the input table (the      *)
(* earlier row first).                                                     *)
(***************************************************************************)
\* the list is made of min(5, n) distinct rows of df, best scores first
TopListWellFormed(top, df) ==
    /\ Len(top) = Min2(5, Len(df.rows))
    /\ \A k \in 1..Len(top) :
          /\ top[k].index + 1 \in RowIdx(df)
          /\ \A c \in BaseCols : top[k][c] = df.rows[top[k].index + 1][c]
    /\ \A k, m \in 1..Len(top) : k # m => top[k].index # top[m].index
    /\ \A k \in 1..Len(top) : \A i \in RowIdx(df) :
          (\A m \in 1..Len(top) : top[m].index + 1 # i) => Score(df.rows[i]) <= Score(top[k])
    /\ \A k \in 1..(Len(top) - 1) : Score(top[k]) >= Score(top[k + 1])

TiesByPosition(top, df) ==
    /\ \A k \in 1..(Len(top) - 1) :
          Score(top[k]) = Score(top[k + 1]) => top[k].index < top[k + 1].index
    /\ \A k \in 1..Len(top) : \A i \in RowIdx(df) :
          ((\A m \in 1..Len(top) : top[m].index + 1 # i) /\ Score(df.rows[i]) = Score(top[k]))
              => top[k].index < i - 1

TiesByStrike(top, df) ==
    /\ \A k \in 1..(Len(top) - 1) :
          Score(top[k]) = Score(top[k + 1]) => top[k]["strike"] <= top[k + 1]["strike"]
    /\ \A k \in 1..Len(top) : \A i \in RowIdx(df) :
          ((\A m \in 1..Len(top) : top[m].index + 1 # i) /\ Score(df.rows[i]) = Score(top[k]))
              => top[k]["strike"] <= df.rows[i]["strike"]

C8_TopFiveTiesByPosition ==
    overview.status = "ok" =>
        /\ TopListWellFormed(overview.top_calls, calls_df)
        /\ TopListWellFormed(overview.top_puts, puts_df)
        /\ TiesByPosition(overview.top_calls, calls_df)
        /\ TiesByPosition(overview.top_puts, puts_df)

\* the claim as stated: ties ordered and selected by strike ascending,
\* whatever the order of the input rows
C8_TopFiveTiesByStrike ==
    overview.status = "ok" =>
        /\ TopListWellFormed(overview.top_calls, calls_df)
        /\ TopListWellFormed(overview.top_puts, puts_df)
        /\ TiesByStrike(overview.top_calls, calls_df)
        /\ TiesByStrike(overview.top_puts, puts_df)

\* six call rows: a row is left out, and it ties with a listed row of a
\* higher strike that comes earlier in the table
C8_Witness ==
    /\ overview.status = "ok"
    /\ Len(calls_df.rows) = 6
    /\ Len(overview.top_calls) = 5
    /\ \E i \in RowIdx(calls_df) :
          /\ \A m \in 1..5 : overview.top_calls[m].index + 1 # i
          /\ \E k \in 1..5 :
                /\ Score(overview.top_calls[k]) = Score(calls_df.rows[i])
                /\ overview.top_calls[k]["strike"] > calls_df.rows[i]["strike"]
    /\ Score(overview.top_calls[1]) > Score(overview.top_calls[5])

(***************************************************************************)
(* C9: when the gamma or the delta column is missing, or entirely null, on *)
(* the calls side or on the puts side, calculate_exposure_profiles returns *)
(* the 'unavailable' result (empty profile, gamma flip 0, HVL 0) as a      *)
(* value and does not raise.                                               *)
(***************************************************************************)
GreekMissingOrNull(df) ==
    \E col \in {"gamma", "delta"} :
        col \notin df.columns \/ (\A i \in RowIdx(df) : df.rows[i][col] = NaN)

C9_MissingGreeksGiveUnavailable ==
    (exposure.status # "none" /\ (GreekMissingOrNull(calls_df) \/ GreekMissingOrNull(puts_df))) =>
        /\ exposure.status = "ok"
        /\ exposure.profile = <<>>
        /\ exposure.gamma_flip = 0
        /\ exposure.hvl = 0

\* the calls carry usable greeks, the puts have a delta column that is null
\* in every row and no gamma column
C9_Witness ==
    /\ exposure.status = "ok"
    /\ exposure.profile = <<>>
    /\ ~GreekMissingOrNull(calls_df) /\ Len(calls_df.rows) = 2
    /\ \E i \in RowIdx(calls_df) : calls_df.rows[i]["gamma"] = NaN
    /\ "gamma" \notin puts_df.columns
    /\ "delta" \in puts_df.columns
    /\ puts_df.rows # <<>>
    /\ \A i \in RowIdx(puts_df) : puts_df.rows[i]["delta"] = NaN

(***************************************************************************)
(* C10: when gamma or delta is zero in every row of a side (what the       *)
(* normalizer writes for a source without greeks) the result is the        *)
(* 'unavailable' empty profile, not a computed all-zero profile with an    *)
(* HVL strike.                                                             *)
(***************************************************************************)
GreekUniformlyZero(df) ==
    \E col \in {"gamma", "delta"} :
        /\ col \in df.columns
        /\ df.rows # <<>>
        /\ \A i \in RowIdx(df) : df.rows[i][col] = 0

C10_ZeroGreeksGiveUnavailable ==
    (exposure.status # "none" /\ (GreekUniformlyZero(calls_df) \/ GreekUniformlyZero(puts_df))) =>
        /\ exposure.status = "ok"
        /\ exposure.profile = <<>>
        /\ exposure.gamma_flip = 0
        /\ exposure.hvl = 0

(***************************************************************************)
(* Vocabulary of the exposure properties.                                  *)
(***************************************************************************)
\* the sum of greek * openInterest over the rows of one side at strike s whose
\* greek is not null, 0 when the side has no such row
GreekOIAt(df, greek, s) ==
    SumFn([i \in {j \in RowIdx(df) : df.rows[j]["strike"] = s /\ df.rows[j][greek] # NaN} |->
              df.rows[i][greek] * df.rows[i]["openInterest"]])

ProfileIdx == 1..Len(exposure.profile)

ProfileStrikes == {exposure.profile[k].strike : k \in ProfileIdx}

\* the sum of the net gamma exposure of exactly the profile strikes <= s
AscendingCumGex(s) ==
    SumFn([k \in {m \in ProfileIdx : exposure.profile[m].strike <= s} |->
              exposure.profile[k].net_gex])

(***************************************************************************)
(* C11: for every strike S of the exposure profile, netGEX(S) is 100 times *)
(* the sum of gamma * openInterest over the call rows at S minus 100 times *)
(* that sum over the put rows at S, and netDEX(S) is 100 times the sum of  *)
(* delta * openInterest over the call rows at S plus 100 times that sum    *)
(* over the put rows at S; a side with no row at S contributes 0.          *)
(***************************************************************************)
C11_NetExposurePerStrike ==
    exposure.status = "ok" =>
        \A k \in ProfileIdx :
            LET S == exposure.profile[k].strike
            IN  /\ exposure.profile[k].net_gex =
                      100 * GreekOIAt(calls_df, "gamma", S) - 100 * GreekOIAt(puts_df, "gamma", S)
                /\ exposure.profile[k].net_dex =
                      100 * GreekOIAt(calls_df, "delta", S) + 100 * GreekOIAt(puts_df, "delta", S)

\* one strike with rows on both sides, another with a put row only
C11_Witness ==
    /\ exposure.status = "ok"
    /\ \E k \in ProfileIdx :
          LET S == exposure.profile[k].strike
          IN  /\ GreekOIAt(calls_df, "gamma", S) > 0
              /\ GreekOIAt(puts_df, "gamma", S) > GreekOIAt(calls_df, "gamma", S)
              /\ exposure.profile[k].net_gex < 0
    /\ \E k \in ProfileIdx :
          LET S == exposure.profile[k].strike
          IN  /\ S \notin StrikeSet(calls_df)
              /\ exposure.profile[k].net_gex < 0
              /\ exposure.profile[k].net_dex < 0

(***************************************************************************)
(* C12: the strikes of the exposure profile are unique and in ascending    *)
(* order for every chain, asymmetric chains included, so that the          *)
(* cumulative net exposure at a strike is the sum of the net values of     *)
(* exactly the strikes less than or equal to it.                           *)
(***************************************************************************)
C12_ProfileStrikesAscending ==
    exposure.status = "ok" =>
        /\ \A k, m \in ProfileIdx :
              k < m => exposure.profile[k].strike < exposure.profile[m].strike
        /\ LET cum == CumSum([k \in ProfileIdx |-> exposure.profile[k].net_gex])
           IN  \A k \in ProfileIdx : cum[k] = AscendingCumGex(exposure.profile[k].strike)

(***************************************************************************)
(* C13: the gamma flip is the smallest strike at which the cumulative net  *)
(* gamma exposure, the running sum over the strikes in ascending order, is *)
(* strictly positive (so it is <= 0 at every smaller strike), and it is 0  *)
(* exactly when that cumulative value is never strictly positive.          *)
(***************************************************************************)
C13_GammaFlipFirstPositiveCumulative ==
    exposure.status = "ok" =>
        LET pos == {s \in ProfileStrikes : AscendingCumGex(s) > 0}
        IN  IF pos = {} THEN exposure.gamma_flip = 0
            ELSE /\ exposure.gamma_flip \in pos
                 /\ \A s \in pos : exposure.gamma_flip <= s

(***************************************************************************)
(* C14: the last element of the cumulative netGEX sequence equals the sum  *)
(* of the per-strike netGEX values over all strikes of the profile, and    *)
(* likewise for netDEX, for the cumulative sequences the program produces: *)
(* the one used for the gamma flip and the one it plots.                   *)
(***************************************************************************)
Last(seq) == seq[Len(seq)]

ProfileTotal(field) == SumFn([k \in ProfileIdx |-> exposure.profile[k][field]])

\* the profile strikes within 25% of the spot price
ShownIdx ==
    {k \in ProfileIdx : /\ 100 * exposure.profile[k].strike >= 75 * spot_price
                        /\ 100 * exposure.profile[k].strike <= 125 * spot_price}

ShownTotal(field) == SumFn([k \in ShownIdx |-> exposure.profile[k][field]])

FlipCumulativeLastIsTotal ==
    (exposure.status = "ok" /\ exposure.profile # <<>>) =>
        Last(NetGexCumsum(exposure.profile)) = ProfileTotal("net_gex")

\* as stated: the plotted curves, in $ millions, end at the total of the profile
C14_CumulativeLastIsProfileTotal ==
    /\ FlipCumulativeLastIsTotal
    /\ (pc = "done" /\ exposure_fig # None) =>
          /\ IsRatio(Last(exposure_fig.gex_cumsum), ProfileTotal("net_gex"), Million)
          /\ IsRatio(Last(exposure_fig.dex_cumsum), ProfileTotal("net_dex"), Million)

\* amended: the plotted curves end at the total of the strikes that are shown,
\* those within 25% of the spot price, in $ millions
C14_CumulativeLastIsShownTotal ==
    /\ FlipCumulativeLastIsTotal
    /\ (pc = "done" /\ exposure_fig # None) =>
          /\ IsRatio(Last(exposure_fig.gex_cumsum), ShownTotal("net_gex"), Million)
          /\ IsRatio(Last(exposure_fig.dex_cumsum), ShownTotal("net_dex"), Million)

\* a figure is drawn while a strike with a net exposure lies outside the range
C14_Witness ==
    /\ pc = "done"
    /\ exposure_fig # None
    /\ Len(exposure.profile) >= 2
    /\ \E k \in ProfileIdx \ ShownIdx :
          exposure.profile[k].net_gex # 0 /\ exposure.profile[k].net_dex # 0
    /\ Last(exposure_fig.gex_cumsum).num # 0

(***************************************************************************)
(* C15: when greeks are available, the HVL strike is a strike of the       *)
(* profile whose absolute net gamma exposure is at least that of every     *)
(* other strike of the profile.                                            *)
(***************************************************************************)
C15_HvlMaximalAbsoluteGex ==
    (exposure.status = "ok" /\ exposure.profile # <<>>) =>
        \E k \in ProfileIdx :
            /\ exposure.profile[k].strike = exposure.hvl
            /\ \A m \in ProfileIdx :
                  Abs(exposure.profile[k].net_gex) >= Abs(exposure.profile[m].net_gex)

\* the HVL strike has a negative net gamma exposure, another strike a positive
\* one of smaller magnitude
C15_Witness ==
    /\ exposure.status = "ok"
    /\ \E k, m \in ProfileIdx :
          /\ exposure.profile[k].strike = exposure.hvl
          /\ exposure.profile[k].net_gex < 0
          /\ exposure.profile[m].net_gex > 0
          /\ Abs(exposure.profile[m].net_gex) < Abs(exposure.profile[k].net_gex)

(***************************************************************************)
(* Vocabulary of the claims about sequences of calls.                      *)
(***************************************************************************)
\* the columns the analyzers write into the tables they are given
Derived == {"oi_vol_product", "gex", "dex"}

\* the table as it was given: without the derived columns
Given(df) ==
    [columns |-> df.columns \ Derived,
     rows    |-> [i \in RowIdx(df) |-> [c \in df.columns \ Derived |-> df.rows[i][c]]]]

\* what each analyzer returns when it is the first one called on c and p
FirstOverview(c, p) ==
    IF AllStrikes(c, p) = <<>> THEN Raised("ValueError") ELSE OverviewResult(c, p)

FirstMaxPain(c, p) ==
    IF AllStrikes(c, p) = <<>> THEN Raised("ValueError")
    ELSE [status |-> "ok",
          value  |-> MaxPainValue(AllStrikes(c, p),
                                  MinLossIndex(TotalLosses(c, p, AllStrikes(c, p))))]

FirstExposure(c, p) ==
    IF GreeksUnavailable(c, p) THEN UnavailableResult
    ELSE ExposureResult(AddCol(AddCol(c, "gex", CallGex(c)), "dex", CallDex(c)),
                        AddCol(AddCol(p, "gex", PutGex(p)), "dex", PutDex(p)))

(***************************************************************************)
(* C16: calling analyze_options_overview, calculate_max_pain or            *)
(* calculate_exposure_profiles twice in a row on the same tables returns   *)
(* identical results, and the result of each analyzer does not depend on   *)
(* which other analyzers were called before it: after every call, each     *)
(* result obtained so far is the one a first call on the tables as given   *)
(* returns, and a result once returned is returned again by a later call.  *)
(***************************************************************************)
C16_ResultsIndependentOfEarlierCalls ==
    [][/\ Given(calls_df') = Given(calls_df)
       /\ Given(puts_df') = Given(puts_df)
       /\ overview.status # "none" => overview' = overview
       /\ max_pain.status # "none" => max_pain' = max_pain
       /\ exposure.status # "none" => exposure' = exposure
       /\ overview'.status # "none" =>
             overview' = FirstOverview(Given(calls_df'), Given(puts_df'))
       /\ max_pain'.status # "none" =>
             max_pain' = FirstMaxPain(Given(calls_df'), Given(puts_df'))
       /\ exposure'.status # "none" =>
             exposure' = FirstExposure(Given(calls_df'), Given(puts_df'))]_vars

\* all three analyzers have been called, the exposure one before the overview
\* one wrote its column or after, on tables with greeks and a full top list
C16_Witness ==
    /\ overview.status = "ok"
    /\ max_pain.status = "ok"
    /\ exposure.status = "ok"
    /\ exposure.profile # <<>>
    /\ Derived \subseteq calls_df.columns
    /\ Len(overview.top_calls) >= 1
    /\ Len(overview.top_puts) >= 1

(***************************************************************************)
(* C17: the analyzers are pure: analyze_options_overview,                  *)
(* calculate_max_pain and calculate_exposure_profiles leave the calls and  *)
(* puts tables they are given unchanged (same rows, same columns, same     *)
(* values).                                                                *)
(***************************************************************************)
C17_AnalyzersLeaveTablesUnchanged ==
    [][calls_df' = calls_df /\ puts_df' = puts_df]_vars

(***************************************************************************)
(* C18: in the normalized chain every row of both sides has a numeric,     *)
(* non-null value for each of strike, openInterest, volume,                *)
(* impliedVolatility, delta and gamma: a field absent from the source is   *)
(* 0, a present but non-numeric field is 0, and numeric source values are  *)
(* kept unchanged.                                                         *)
(***************************************************************************)
IsNumber(x) == x \in Nat

\* the value the claim gives the field col of row i of the source table raw
ExpectedCell(raw, i, col) ==
    IF col \notin raw.columns THEN 0
    ELSE LET x == raw.rows[i][col]
         IN  IF x = Text \/ x = NaN THEN 0
             ELSE IF x = StrOf(2) THEN 2
             ELSE x

\* the table out is the source table raw with the fields cols normalized
NormalizedOn(raw, out, cols) ==
    /\ out # None
    /\ Len(out.rows) = Len(raw.rows)
    /\ cols \subseteq out.columns
    /\ \A i \in RowIdx(out) : \A col \in cols :
          /\ IsNumber(out.rows[i][col])
          /\ out.rows[i][col] = ExpectedCell(raw, i, col)

\* the fields cols of out are as the source has them: absent when absent, and
\* the same cells otherwise
Untouched(raw, out, cols) ==
    \A col \in cols :
        /\ col \in out.columns <=> col \in raw.columns
        /\ col \in raw.columns =>
              \A i \in RowIdx(out) : out.rows[i][col] = raw.rows[i][col]

Returned == pc \in {"fetched", "fetched_draft"} /\ calls_df # None /\ puts_df # None

\* as stated, of both normalizers
C18_NormalizedFieldsNumeric ==
    Returned =>
        /\ NormalizedOn(option_chain.calls, calls_df, NumericCols)
        /\ NormalizedOn(option_chain.puts, puts_df, NumericCols)

\* amended: the six fields in options.py; in the draft the four fields without
\* the greeks, which stay as the source has them
C18_NormalizedFieldsByVariant ==
    /\ (pc = "fetched" /\ option_chain # Failed) =>
          /\ NormalizedOn(option_chain.calls, calls_df, NumericCols)
          /\ NormalizedOn(option_chain.puts, puts_df, NumericCols)
    /\ (pc = "fetched_draft" /\ calls_df # None /\ puts_df # None) =>
          /\ NormalizedOn(option_chain.calls, calls_df, NumericColsDraft)
          /\ NormalizedOn(option_chain.puts, puts_df, NumericColsDraft)
          /\ Untouched(option_chain.calls, calls_df, {"delta", "gamma"})
          /\ Untouched(option_chain.puts, puts_df, {"delta", "gamma"})

\* options.py has normalized a calls table without a gamma column, whose
\* volume is a non-numeric string and whose delta is the string of a number
C18_Witness ==
    /\ pc = "fetched"
    /\ calls_df # None
    /\ "gamma" \notin option_chain.calls.columns
    /\ {"volume", "delta"} \subseteq option_chain.calls.columns
    /\ \E i \in RowIdx(calls_df) :
          /\ option_chain.calls.rows[i]["volume"] = Text
          /\ option_chain.calls.rows[i]["delta"] = StrOf(2)
          /\ calls_df.rows[i]["volume"] = 0
          /\ calls_df.rows[i]["delta"] = 2
          /\ calls_df.rows[i]["gamma"] = 0
          /\ calls_df.rows[i]["strike"] = option_chain.calls.rows[i]["strike"]

(***************************************************************************)
(* C19: the analyzers are invoked only when the data-fetch step delivered  *)
(* both a calls table and a puts table that are non-null and non-empty;    *)
(* when the fetch fails or returns no data, no analyzer is called in that  *)
(* run.                                                                    *)
(***************************************************************************)
AnalyzerCalled ==
    overview.status # "none" \/ max_pain.status # "none" \/ exposure.status # "none"

BothDelivered ==
    /\ calls_df # None /\ puts_df # None
    /\ calls_df.rows # <<>> /\ puts_df.rows # <<>>

C19_AnalyzersOnlyOnDeliveredData ==
    /\ (AnalyzerCalled \/ pc \in {"overview", "max_pain", "exposure", "metrics", "plot"}) =>
          (option_chain # Failed /\ BothDelivered)
    /\ (pc = "done" /\ ~BothDelivered) => ~AnalyzerCalled

\* the run has ended on an answer with a calls table and an empty puts table,
\* which yfinance delivered as tables
C19_Witness ==
    /\ pc = "done"
    /\ calls_df # None /\ puts_df # None
    /\ calls_df.rows # <<>> /\ puts_df.rows = <<>>
    /\ ~AnalyzerCalled

(***************************************************************************)
(* C20: the presentation layer treats the gamma-flip sentinel 0 as         *)
(* absence: the gamma-flip metric shows 'N/A' and no gamma-flip reference  *)
(* line is drawn exactly when calculate_exposure_profiles returned gamma   *)
(* flip 0, and the strike is shown whenever a positive gamma flip was      *)
(* returned.                                                               *)
(***************************************************************************)
Presented == pc = "done" /\ exposure.status = "ok"

FlipLines ==
    IF exposure_fig = None THEN {}
    ELSE {l \in exposure_fig.hlines : l.label = "Gamma Flip"}

MetricTreatsZeroAsAbsence ==
    /\ gamma_flip_metric.text = "N/A" <=> exposure.gamma_flip = 0
    /\ exposure.gamma_flip > 0 =>
          gamma_flip_metric = [text |-> "$", amount |-> exposure.gamma_flip]

\* as stated
C20_FlipLineAbsentExactlyWhenZero ==
    Presented =>
        /\ MetricTreatsZeroAsAbsence
        /\ FlipLines = {} <=> exposure.gamma_flip = 0

\* amended: the line is drawn exactly when the gamma flip is positive and the
\* chart is drawn, that is when a profile strike lies within 25% of the spot
C20_FlipLineOnlyWhenPositiveAndPlotted ==
    Presented =>
        /\ MetricTreatsZeroAsAbsence
        /\ exposure.gamma_flip = 0 => FlipLines = {}
        /\ exposure_fig = None <=> ShownIdx = {}
        /\ (exposure.gamma_flip > 0 /\ exposure_fig # None) =>
              FlipLines = {[label |-> "Gamma Flip", y |-> exposure.gamma_flip]}
        /\ (exposure.gamma_flip > 0 /\ exposure_fig = None) => FlipLines = {}

\* a positive gamma flip is shown as a metric while no chart is drawn
C20_Witness ==
    /\ Presented
    /\ exposure.gamma_flip > 0
    /\ gamma_flip_metric = [text |-> "$", amount |-> exposure.gamma_flip]
    /\ exposure_fig = None

(***************************************************************************)
(* C21: in every run of the dashboard script in which a data fetch fails   *)
(* (spot price, expiration list, or option chain), a message is on the     *)
(* page when the run ends; and an api_error set by a fetch of the run is   *)
(* then either displayed or replaced by the generic message 'Could not     *)
(* retrieve options data.'.                                                *)
(***************************************************************************)
RunEnded == pc = "done"

ErrorsShown == {m \in messages : m.kind \in {"error", "warning"}}

C21_FailedFetchIsReported ==
    RunEnded =>
        /\ (failed # {} => ErrorsShown # {})
        /\ (api_error # None =>
               \/ StError(api_error.message) \in messages
               \/ StError("Could not retrieve options data.") \in messages)

(***************************************************************************)
(* C22: once a call of the scraper has fetched the chain of a (ticker,     *)
(* expiry) pair, every call for the same pair that begins later makes no   *)
(* HTTP request and yields the same sequence of records as that first      *)
(* call.                                                                   *)
(***************************************************************************)
CallEnded(c) == callers[c].pc = "done"

C22_LaterCallsServedFromCache ==
    \A c \in Callers :
        CallEnded(c) /\ callers[c].later =>
            /\ ~callers[c].http
            /\ callers[c].result = first_fetch[CacheFile(c)]

(***************************************************************************)
(* C23: a call whose HTTP fetch fails (exception of the request, error     *)
(* status, or a body that is no JSON) ends in that step with no records    *)
(* and writes nothing to the cache; and a cache file comes to exist only   *)
(* by the step of a call that holds a response with success status whose   *)
(* body decoded as JSON.                                                   *)
(***************************************************************************)
FetchFails(c) == ~callers[c].fetch_failed /\ callers'[c].fetch_failed

Created(path) == path \notin DOMAIN cache_dir /\ path \in DOMAIN cache_dir'

C23_FailedFetchWritesNothing ==
    [][/\ \A c \in Callers :
             FetchFails(c) =>
                 /\ cache_dir' = cache_dir
                 /\ callers'[c].pc = "done"
                 /\ callers'[c].result.records = <<>>
       /\ \A path \in DOMAIN cache_dir' :
             Created(path) =>
                 \E c \in Callers :
                     /\ CacheFile(c) = path
                     /\ callers[c].response # None
                     /\ callers[c].response # Failed
                     /\ callers[c].response.status_code = 200
                     /\ Decodable(callers[c].response.text)]_vars

\* a call has ended on an error status and there is no cache file of its pair
C23_Witness ==
    \E c \in Callers :
        /\ CallEnded(c)
        /\ callers[c].fetch_failed
        /\ callers[c].response # Failed
        /\ callers[c].response.status_code = 503
        /\ ~Exists(CacheFile(c))

(***************************************************************************)
(* C24: a run of scheduler.scrape_and_save makes at most MAX_RETRIES (3)   *)
(* attempts and then ends: every step of a run lowers a measure that is    *)
(* never negative, so no run goes on for ever; an attempt that completes   *)
(* without an exception is the last one and ends the run at once; an       *)
(* attempt that finds no expiration dates is a failed one; and time.sleep  *)
(* is called once after every failed attempt that another attempt          *)
(* follows, never after the last one.                                      *)
(***************************************************************************)
Attempts == Len(sched.log)

JobRunning == sched.pc \in {"dates", "expiry", "sleep"}

JobEnded == sched.pc = "done"

\* what is left of a run: the passes of the retry loop, then the place in
\* the pass, then the dates still to scrape
StepsLeft ==
    IF ~JobRunning THEN 0
    ELSE (MAX_RETRIES - sched.i) * 100
         + (IF sched.pc = "dates" THEN 30 ELSE IF sched.pc = "expiry" THEN 20 ELSE 10)
         + Len(sched.expiration_dates)

RetryLoopBounded ==
    /\ Attempts <= MAX_RETRIES
    /\ \A k \in 1..Attempts :
          /\ sched.log[k].ok => k = Attempts /\ JobEnded
          /\ ~sched.log[k].dates_found => ~sched.log[k].ok
    /\ JobEnded => sched.log[Attempts].ok \/ Attempts = MAX_RETRIES
    /\ JobEnded => sched.sleeps = Attempts - 1
    /\ sched.pc = "sleep" => sched.sleeps = Attempts - 1 /\ Attempts < MAX_RETRIES
    /\ sched.pc \in {"dates", "expiry"} => sched.sleeps = Attempts
    /\ Len(sched.expiration_dates) < 10
    /\ StepsLeft >= 0

C24_RetryLoopTerminates ==
    [][/\ RetryLoopBounded'
       /\ JobRunning => StepsLeft' < StepsLeft]_vars

\* all the attempts of a run have failed, the second one for want of dates
C24_Witness ==
    /\ JobEnded
    /\ Attempts = MAX_RETRIES
    /\ \A k \in 1..Attempts : ~sched.log[k].ok
    /\ ~sched.log[2].dates_found
    /\ sched.sleeps = 2

(***************************************************************************)
(* C25: when the scrape job of the server has ended, every expiration date *)
(* it found for a ticker has been handed to process_single_expiry: a date  *)
(* on which the scraper fails or returns corrupted data is skipped alone   *)
(* and the dates after it are still processed.                             *)
(***************************************************************************)
ScrapeEnded == job.pc = "done"

C25_FailingDateSkippedAlone == ScrapeEnded => job.found \subseteq job.processed

(***************************************************************************)
(* C26: /api/expirations answers with status 500 whenever the fetch of the *)
(* dates failed (network error, error status, empty or undecodable body)   *)
(* and with status 200 and the list only when the fetch succeeded.         *)
(***************************************************************************)
ExpirationsAnswered == reply # None /\ reply.endpoint = "expirations"

C26_FailedFetchAnswered500 ==
    ExpirationsAnswered =>
        /\ reply.fetch_failed => reply.status = 500
        /\ reply.status = 200 => ~reply.fetch_failed

(***************************************************************************)
(* C27: after every step of the server each CSV file of the data store is  *)
(* one header line followed by data rows only; a step keeps every file and *)
(* every line that existed and only appends; process_single_expiry writes  *)
(* the header exactly when it creates the file, and with no records it     *)
(* creates and changes no file.                                            *)
(***************************************************************************)
OneHeaderThenRows(file) ==
    /\ file # <<>>
    /\ file[1] = Header
    /\ \A i \in 2..Len(file) : file[i] # Header

IsPrefix(old, new) == Len(old) <= Len(new) /\ SubSeq(new, 1, Len(old)) = old

C27_CsvFilesAppendOnly ==
    [][/\ \A path \in DOMAIN data_store' : OneHeaderThenRows(data_store'[path])
       /\ \A path \in DOMAIN data_store :
             /\ path \in DOMAIN data_store'
             /\ IsPrefix(data_store[path], data_store'[path])
       /\ \A path \in DOMAIN data_store' :
             LET before == IF path \in DOMAIN data_store THEN Len(data_store[path]) ELSE 0
                 added == Len(data_store'[path]) - before
             IN /\ path \notin DOMAIN data_store => added = 1 + Len(job'.records)
                /\ path \in DOMAIN data_store /\ added > 0 => added = Len(job'.records)
       /\ job'.records = <<>> => data_store' = data_store]_vars

\* the job has appended the rows of a run to a file of an earlier day
C27_Witness ==
    /\ job.written # None
    /\ LET file == data_store[job.written.path]
       IN /\ Len(file) >= 3
          /\ file[2].timestamp = 0
          /\ file[Len(file)].timestamp = 1

(***************************************************************************)
(* C28: parse_json_records yields nothing for a row without a strike; for  *)
(* a row with a strike it yields a call record exactly when c_Last is not  *)
(* empty and not '--' and a put record exactly when p_Last is not empty    *)
(* and not '--', the call before the put, row after row in the order of    *)
(* the rows: at most two records per row.                                  *)
(***************************************************************************)
Parsed == records # None /\ records.status = "ok"

RowsOf(doc) ==
    IF "data" \in DOMAIN doc THEN doc.data.table.rows.list ELSE <<>>

Present(row, key) ==
    /\ key \in DOMAIN row
    /\ row[key] \notin {None, Str(<<>>)}

Quoted(row, key) == Present(row, key) /\ row[key].str # <<"-", "-">>

ExpectedOfRow(rows, i) ==
    IF ~Present(rows[i], "strike") THEN <<>>
    ELSE (IF Quoted(rows[i], "c_Last") THEN <<[row |-> i, side |-> "call"]>> ELSE <<>>)
         \o (IF Quoted(rows[i], "p_Last") THEN <<[row |-> i, side |-> "put"]>> ELSE <<>>)

RECURSIVE ExpectedUpTo(_, _)
ExpectedUpTo(rows, n) ==
    IF n = 0 THEN <<>> ELSE ExpectedUpTo(rows, n - 1) \o ExpectedOfRow(rows, n)

C28_RecordsFollowTheRows ==
    Parsed =>
        LET rows == RowsOf(json_data)
            expected == ExpectedUpTo(rows, Len(rows))
        IN /\ Len(records.records) = Len(expected)
           /\ \A j \in 1..Len(expected) :
                 LET record == records.records[j]
                     row == rows[expected[j].row]
                 IN /\ record.Strike = row.strike
                    /\ expected[j].side = "call" =>
                          record.Puts = None /\ record.Calls # None /\ record.Last = row.c_Last
                    /\ expected[j].side = "put" =>
                          record.Calls = None /\ record.Puts # None /\ record.Last = row.p_Last

\* a first row with both prices and a second row whose call price is '--'
C28_Witness ==
    /\ Parsed
    /\ Len(RowsOf(json_data)) = 2
    /\ Len(records.records) = 3
    /\ Get(RowsOf(json_data)[2], "c_Last") = Dashes
    /\ records.records[3].Calls = None

(***************************************************************************)
(* C29: every record the scraper yields as a call (its 'Puts' is None) is  *)
(* written with type 'call' by process_single_expiry and entered with type *)
(* 'call' in the raw data of get_chart_data, every record yielded as a put *)
(* (its 'Calls' is None) with type 'put', and no record is dropped.        *)
(***************************************************************************)
ChartAnswered == reply # None /\ reply.endpoint = "chart_data" /\ reply.status # 500

RawDataOf(answer) == IF answer.status = 200 THEN answer.body.list ELSE <<>>

C29_RecordsKeepTheirSide ==
    /\ job.written # None =>
          LET file == data_store[job.written.path]
              n == Len(job.records)
          IN \A i \in 1..n :
                file[Len(file) - n + i].type = OptionTypeBySide(job.records[i])
    /\ ChartAnswered =>
          /\ Len(RawDataOf(reply)) = Len(reply.records)
          /\ \A i \in 1..Len(reply.records) :
                RawDataOf(reply)[i].type = OptionTypeBySide(reply.records[i])

=============================================================================
